---- MODULE Spec2Model ----
(***************************************************************************)
(* A model of the projection engine of src/src/forecast.py.                *)
(*                                                                         *)
(* Numbers.  The engine computes in IEEE doubles.  The model computes the  *)
(* value path (fits, slopes, clamps, predictions, percentiles, means) in   *)
(* exact rational arithmetic: a number is a record [n, d] with d > 0 in    *)
(* lowest terms, and NaN is the record with d = 0, which compares false    *)
(* with everything, itself included.  Square roots (the residual standard  *)
(* errors) are taken in fixed point, rounded down to 1/FP, and so are the  *)
(* weighted residuals under the root of forecast_weight_realistic; its     *)
(* fitted slope is kept to 1/FP^2.  np.exp of the recency weights is       *)
(* tabulated to two decimals.                                              *)
(*                                                                         *)
(* Frames.  A body-weight frame is a sequence of rows [date, w]: date is a *)
(* day number (NaT for a missing date) and w a number (NaN for a missing   *)
(* weight).  A result frame is a sequence of rows [date, value, lower,     *)
(* upper, kind]; a call that raises is recorded as such.                   *)
(***************************************************************************)
EXTENDS Integers, Sequences, FiniteSets, TLC

(***************************************************************************)
(* Rational arithmetic                                                     *)
(***************************************************************************)
Abs(x) == IF x < 0 THEN -x ELSE x

Sign(x) == IF x < 0 THEN -1 ELSE IF x > 0 THEN 1 ELSE 0

\* the greatest common divisor of a and b, for b > 0 and a of either sign
RECURSIVE GCD(_, _)
GCD(a, b) == IF b = 0 THEN a ELSE GCD(b, a % b)

NaN == [n |-> 0, d |-> 0]

IsNaN(x) == x.d = 0

\* n / d in lowest terms, d > 0
Reduce(n, d) == [n |-> n \div GCD(n, d), d |-> d \div GCD(n, d)]

RNorm(n, d) ==
    IF d = 0 THEN NaN ELSE IF d < 0 THEN Reduce(-n, -d) ELSE Reduce(n, d)

R(k) == [n |-> k, d |-> 1]

RNeg(x) == [n |-> -x.n, d |-> x.d]

\* x + y over the least common denominator
RAdd(x, y) ==
    IF IsNaN(x) \/ IsNaN(y) THEN NaN
    ELSE Reduce(x.n * (y.d \div GCD(x.d, y.d)) + y.n * (x.d \div GCD(x.d, y.d)),
                (x.d \div GCD(x.d, y.d)) * y.d)

RSub(x, y) == RAdd(x, RNeg(y))

\* x * y, cancelling across before multiplying
RMul(x, y) ==
    IF IsNaN(x) \/ IsNaN(y) THEN NaN
    ELSE [n |-> (x.n \div GCD(x.n, y.d)) * (y.n \div GCD(y.n, x.d)),
          d |-> (x.d \div GCD(y.n, x.d)) * (y.d \div GCD(x.n, y.d))]

RSq(x) == RMul(x, x)

\* x / y; a division by zero gives NaN (a zero denominator)
RDiv(x, y) ==
    IF IsNaN(x) \/ IsNaN(y) \/ y.n = 0 THEN NaN
    ELSE RMul(x, [n |-> Sign(y.n) * y.d, d |-> Abs(y.n)])

\* the sign of x - y
RCmp(x, y) ==
    Sign(x.n * (y.d \div GCD(x.d, y.d)) - y.n * (x.d \div GCD(x.d, y.d)))

\* comparisons are false as soon as one side is NaN
REq(x, y) == ~IsNaN(x) /\ ~IsNaN(y) /\ x.n = y.n /\ x.d = y.d

RLt(x, y) == ~IsNaN(x) /\ ~IsNaN(y) /\ RCmp(x, y) < 0

RLe(x, y) == ~IsNaN(x) /\ ~IsNaN(y) /\ RCmp(x, y) <= 0

RAbs(x) == [n |-> Abs(x.n), d |-> x.d]

RMin(x, y) == IF RLt(y, x) THEN y ELSE x

RMax(x, y) == IF RLt(x, y) THEN y ELSE x

\* np.clip(x, lo, hi) = minimum(maximum(x, lo), hi)
RClip(x, lo, hi) == RMin(RMax(x, lo), hi)

RECURSIVE RSum(_)
RSum(s) == IF s = <<>> THEN R(0) ELSE RAdd(Head(s), RSum(Tail(s)))

RMean(s) == RDiv(RSum(s), R(Len(s)))

RECURSIVE SeqMin(_)
SeqMin(s) == IF Len(s) = 1 THEN s[1] ELSE RMin(s[1], SeqMin(Tail(s)))

RECURSIVE SeqMax(_)
SeqMax(s) == IF Len(s) = 1 THEN s[1] ELSE RMax(s[1], SeqMax(Tail(s)))

\* the resolution of the fixed-point square root: results are multiples of 1/FP
FP == 10

RECURSIVE ISqrtFrom(_, _)
ISqrtFrom(k, r) == IF (r + 1) * (r + 1) > k THEN r ELSE ISqrtFrom(k, r + 1)

RECURSIVE ISqrt(_)
ISqrt(k) == IF k < 4 THEN (IF k = 0 THEN 0 ELSE 1)
            ELSE ISqrtFrom(k, 2 * ISqrt(k \div 4))

\* floor(x * FP^digits) for x >= 0, by long division in base FP
RECURSIVE ScaleDown(_, _, _, _)
ScaleDown(q, rem, d, digits) ==
    IF digits = 0 THEN q
    ELSE ScaleDown(q * FP + (rem * FP) \div d, (rem * FP) % d, d, digits - 1)

\* sign * floor(a * FP^digits) / FP^digits for a = num / den >= 0
Rounded(sign, num, den, digits, unit) ==
    RNorm(sign * ScaleDown(num \div den, num % den, den, digits), unit)

\* x rounded toward zero to a multiple of 1/FP
ToFP(x) == IF IsNaN(x) THEN NaN ELSE Rounded(Sign(x.n), Abs(x.n), x.d, 1, FP)

\* x rounded toward zero to a multiple of 1/FP^2
ToFP2(x) == IF IsNaN(x) THEN NaN ELSE Rounded(Sign(x.n), Abs(x.n), x.d, 2, FP * FP)

\* np.sqrt(x), rounded down to a multiple of 1/FP; NaN for a negative x
RSqrt(x) ==
    IF IsNaN(x) \/ x.n < 0 THEN NaN
    ELSE RNorm(ISqrt(ScaleDown(x.n \div x.d, x.n % x.d, x.d, 2)), FP)

\* 1.96, the z-multiplier of the confidence bands
Z196 == RNorm(196, 100)

(***************************************************************************)
(* Sequences of numbers                                                    *)
(***************************************************************************)
RECURSIVE Insert(_, _)
Insert(x, s) ==
    IF s = <<>> THEN <<x>>
    ELSE IF RLe(x, Head(s)) THEN <<x>> \o s
    ELSE <<Head(s)>> \o Insert(x, Tail(s))

RECURSIVE SortAsc(_)
SortAsc(s) == IF s = <<>> THEN <<>> ELSE Insert(Head(s), SortAsc(Tail(s)))

\* the value at the fractional position pos / 4 of the sorted sequence a
Interpolate(a, pos) ==
    IF pos % 4 = 0 THEN a[pos \div 4 + 1]
    ELSE RAdd(a[pos \div 4 + 1],
              RMul(RNorm(pos % 4, 4), RSub(a[pos \div 4 + 2], a[pos \div 4 + 1])))

\* np.percentile(values, 25 * q4), linear interpolation between order statistics
Percentile(values, q4) == Interpolate(SortAsc(values), q4 * (Len(values) - 1))

\* (y - preds) ** 2, averaged
MSE(y, preds) == RMean([i \in 1..Len(y) |-> RSq(RSub(y[i], preds[i]))])

(***************************************************************************)
(* forecast_series: the generic univariate forecast                        *)
(***************************************************************************)
\* the discrete orthogonal polynomials of degree 1 and 2 on x = 0..n-1:
\* P1 = 2 * (x - mean(x)), and P2 orthogonal to 1 and P1
P1(n, x) == 2 * x - (n - 1)

P2(n, x) == 3 * (2 * x - (n - 1)) * (2 * x - (n - 1)) - (n * n - 1)

\* <p, y> / <p, p>, the least-squares coefficient of y on the polynomial of
\* values p
Coef(p, y) ==
    RDiv(RSum([i \in 1..Len(y) |-> RMul(R(p[i]), y[i])]),
         RSum([i \in 1..Len(y) |-> R(p[i] * p[i])]))

\* the line of slope b through the point of means ((n - 1) / 2, ybar)
LineThroughMeans(n, ybar, b) == [a |-> RSub(ybar, RMul(b, RNorm(n - 1, 2))), b |-> b]

\* LinearRegression().fit(arange(n), y): least squares y = a + b*x over
\* x = 0..n-1, with b = sxy / sxx = 2 * <P1, y> / <P1, P1>; a single point
\* has no spread in x and gets slope 0
LinFit(y) ==
    LineThroughMeans(Len(y), RMean(y),
                     IF Len(y) = 1 THEN R(0) ELSE RMul(R(2), Coef([i \in 1..Len(y) |-> P1(Len(y), i - 1)], y)))

\* model.predict over x = from .. from + count - 1
LinPredict(m, from, count) ==
    [k \in 1..count |-> RAdd(m.a, RMul(m.b, R(from + k - 1)))]

\* a variant of the standard error that falls back to 1 for a single point,
\* as line 244 does
FitSEOneForSingle(y, fitted) == IF Len(y) > 1 THEN RSqrt(MSE(y, fitted)) ELSE R(1)

\* the standard error lines 24 and 40 compute: the in-sample RMSE, and
\* np.std(y) = 0 for a single point
FitSE(y, fitted) == IF Len(y) > 1 THEN RSqrt(MSE(y, fitted)) ELSE R(0)

\* a fitted model: its kind, the coefficients of its kind (zeros for the
\* other kind), its standard error
LinearModel(y, m) ==
    [kind |-> "linear", lin |-> m, quad |-> [c0 |-> R(0), c1 |-> R(0), c2 |-> R(0)],
     se |-> FitSE(y, LinPredict(m, 0, Len(y)))]

\* _fit_linear(y)
FitLinear(y) == LinearModel(y, LinFit(y))

\* the least-squares quadratic through (x, y[x+1]), x = 0..n-1, n >= 3, in the
\* orthogonal basis: ybar + c1*P1 + c2*P2, with cj = <Pj, y> / <Pj, Pj>
QuadFit(y) == [c0 |-> RMean(y), c1 |-> Coef([i \in 1..Len(y) |-> P1(Len(y), i - 1)], y),
               c2 |-> Coef([i \in 1..Len(y) |-> P2(Len(y), i - 1)], y)]

QuadAt(q, n, x) ==
    RAdd(q.c0, RAdd(RMul(q.c1, R(P1(n, x))), RMul(q.c2, R(P2(n, x)))))

\* a fitted model's predictions over x = from .. from + count - 1
Predict(m, n, from, count) ==
    IF m.kind = "linear" THEN LinPredict(m.lin, from, count)
    ELSE [k \in 1..count |-> QuadAt(m.quad, n, from + k - 1)]

PolyModel(y, q) ==
    [kind |-> "poly", lin |-> [a |-> R(0), b |-> R(0)], quad |-> q,
     se |-> FitSE(y, [i \in 1..Len(y) |-> QuadAt(q, Len(y), i - 1)])]

\* _fit_polynomial(y, degree): the linear fit when len(y) < degree + 2, the
\* quadratic otherwise (degree is 2 wherever the quadratic is reached)
FitPolynomial(y, degree) ==
    IF Len(y) < degree + 2 THEN FitLinear(y) ELSE PolyModel(y, QuadFit(y))

\* np.convolve(values, np.ones(window)/window, mode='same')[i], i one-based:
\* the kernel covers the positions i - (window div 2) .. i - (window div 2) +
\* window - 1, and the positions outside the array count as zero
ConvolveSame(values, window, i) ==
    RDiv(RSum([j \in 1..Len(values) |->
                  IF j >= i - window \div 2 /\ j <= i - window \div 2 + window - 1
                  THEN values[j] ELSE R(0)]),
         R(window))

\* a variant of _smooth_data that keeps the convolved edge values
SmoothDataEdgesConvolved(values, window) ==
    IF Len(values) < window THEN values
    ELSE [i \in 1..Len(values) |-> ConvolveSame(values, window, i)]

\* _smooth_data(values, window)
SmoothData(values, window) ==
    IF Len(values) < window THEN values
    ELSE [i \in 1..Len(values) |->
             IF i = 1 \/ i = Len(values) THEN values[i]
             ELSE ConvolveSame(values, window, i)]

Min2(a, b) == IF a < b THEN a ELSE b

Max2(a, b) == IF a > b THEN a ELSE b

\* lines 81-83: the values within the bounds, or all of them when none is
Within(values, lower_bound, upper_bound) ==
    IF \E i \in 1..Len(values) : RLe(lower_bound, values[i]) /\ RLe(values[i], upper_bound)
    THEN SelectSeq(values, LAMBDA v : RLe(lower_bound, v) /\ RLe(v, upper_bound))
    ELSE values

\* a variant of the outlier filter without the test iqr > 0
IqrFilterNoIqrTest(values, q1, q3, iqr) ==
    Within(values, RSub(q1, RMul(RNorm(3, 2), iqr)), RAdd(q3, RMul(RNorm(3, 2), iqr)))

\* lines 77-83: the filter between the quartiles q1 and q3, iqr apart
IqrFilter(values, q1, q3, iqr) ==
    IF RLt(R(0), iqr)
    THEN Within(values, RSub(q1, RMul(RNorm(3, 2), iqr)),
                RAdd(q3, RMul(RNorm(3, 2), iqr)))
    ELSE values

\* lines 74-83: the IQR outlier filter
OutlierStep(values) ==
    IF Len(values) > 4
    THEN IqrFilter(values, Percentile(values, 1), Percentile(values, 3),
                   RSub(Percentile(values, 3), Percentile(values, 1)))
    ELSE values

\* lines 85-87: the smoothing step
SmoothStep(values) ==
    IF Len(values) >= 5 THEN SmoothData(values, Min2(3, Len(values) \div 2))
    ELSE values

\* the algorithm of a call, with no in-sample errors computed
Keep(algo) == [algo |-> algo, linear_mse |-> NaN, poly_mse |-> NaN]

\* a variant of the comparison that takes the polynomial for any gain in MSE
BetterOfAnyGain(linear_mse, poly_mse) ==
    [algo |-> IF RLt(poly_mse, linear_mse) THEN "poly" ELSE "linear",
     linear_mse |-> linear_mse, poly_mse |-> poly_mse]

\* lines 104-108: the polynomial when its error is under 80 % of the linear
BetterOf(linear_mse, poly_mse) ==
    [algo |-> IF RLt(poly_mse, RMul(linear_mse, RNorm(8, 10))) THEN "poly" ELSE "linear",
     linear_mse |-> linear_mse, poly_mse |-> poly_mse]

\* lines 89-110: the algorithm after the auto block, with the two in-sample
\* errors the block compares (NaN where it does not compute them)
SelectAlgo(values, algo, hasSM) ==
    IF algo # "auto" THEN Keep(algo)
    ELSE IF hasSM /\ Len(values) >= 6 THEN Keep("holt")
    ELSE IF Len(values) >= 4
    THEN BetterOf(MSE(values, LinPredict(LinFit(values), 0, Len(values))),
                  MSE(values, Predict(FitPolynomial(values, 2), Len(values), 0,
                                      Len(values))))
    ELSE Keep("linear")

\* a variant of the clip that returns the predictions as they are
ClipAroundNone(preds, min_val, max_val, half_range) == preds

\* np.clip(preds, min_val - 0.5 * range_val, max_val + 0.5 * range_val)
ClipAround(preds, min_val, max_val, half_range) ==
    [k \in 1..Len(preds) |->
        RClip(preds[k], RSub(min_val, half_range), RAdd(max_val, half_range))]

\* lines 125-127, 138-140, 149-151: the clip to the padded range of the values
ClipToRange(preds, values) ==
    ClipAround(preds, SeqMin(values), SeqMax(values),
               RMul(RNorm(1, 2), RSub(SeqMax(values), SeqMin(values))))

\* What statsmodels' ExponentialSmoothing(...).fit(optimized=True) and its
\* forecast can do on a series: raise, or return fitted values (here: off the
\* data by resid at every point) and a forecast that continues the last value
\* with a trend.
HoltOutcomes ==
    {[raises |-> TRUE,  resid |-> 0, trend |-> 0],
     [raises |-> FALSE, resid |-> 0, trend |-> 0],
     [raises |-> FALSE, resid |-> 2, trend |-> -9]}

\* the result of an estimator block: the clipped predictions and the error
Fitted(values, preds, se, used) ==
    [raised |-> FALSE, preds |-> ClipToRange(preds, values), se |-> se, used |-> used]

\* lines 134-140 and 146-152: the predictions of a fitted model m
FittedBy(values, steps, m, used) ==
    Fitted(values, Predict(m, Len(values), Len(values), steps), m.se, used)

\* a variant of the estimator blocks without the try/except of lines 114-130:
\* a Holt fit that raises ends the call
FitStepHoltUncaught(values, steps, algo, hasSM, holt) ==
    IF algo = "holt" /\ hasSM /\ Len(values) >= 6 /\ holt.raises
    THEN [raised |-> TRUE, preds |-> <<>>, se |-> NaN, used |-> "holt"]
    ELSE IF algo = "holt" /\ hasSM /\ Len(values) >= 6
    THEN Fitted(values,
                [k \in 1..steps |-> RAdd(values[Len(values)], R(holt.trend * k))],
                FitSE(values, [i \in 1..Len(values) |-> RSub(values[i], R(holt.resid))]),
                "holt")
    ELSE IF steps = 0
    THEN [raised |-> TRUE, preds |-> <<>>, se |-> NaN, used |-> "linear"]
    ELSE IF algo = "poly" /\ Len(values) >= 4
    THEN FittedBy(values, steps, FitPolynomial(values, Min2(2, Len(values) - 2)), "poly")
    ELSE FittedBy(values, steps, FitLinear(values), "linear")

\* a variant of the estimator blocks whose Holt block takes 5 points
FitStepHoltFromFive(values, steps, algo, hasSM, holt) ==
    IF algo = "holt" /\ hasSM /\ Len(values) >= 5 /\ ~holt.raises
    THEN Fitted(values,
                [k \in 1..steps |-> RAdd(values[Len(values)], R(holt.trend * k))],
                FitSE(values, [i \in 1..Len(values) |-> RSub(values[i], R(holt.resid))]),
                "holt")
    ELSE IF steps = 0
    THEN [raised |-> TRUE, preds |-> <<>>, se |-> NaN, used |-> "linear"]
    ELSE IF algo = "poly" /\ Len(values) >= 4
    THEN FittedBy(values, steps, FitPolynomial(values, Min2(2, Len(values) - 2)), "poly")
    ELSE FittedBy(values, steps, FitLinear(values), "linear")

\* lines 112-152: the estimator blocks, on the filtered and smoothed values.
\* sklearn's predict refuses an empty X, so steps = 0 raises in the
\* polynomial block (caught, line 142) and again in the linear block (not
\* caught).
FitStep(values, steps, algo, hasSM, holt) ==
    IF algo = "holt" /\ hasSM /\ Len(values) >= 6 /\ ~holt.raises
    THEN Fitted(values,
                [k \in 1..steps |-> RAdd(values[Len(values)], R(holt.trend * k))],
                FitSE(values, [i \in 1..Len(values) |-> RSub(values[i], R(holt.resid))]),
                "holt")
    ELSE IF steps = 0
    THEN [raised |-> TRUE, preds |-> <<>>, se |-> NaN, used |-> "linear"]
    ELSE IF algo = "poly" /\ Len(values) >= 4
    THEN FittedBy(values, steps, FitPolynomial(values, Min2(2, Len(values) - 2)), "poly")
    ELSE FittedBy(values, steps, FitLinear(values), "linear")

\* the record of a call of forecast_series: the return value (preds, se) or
\* raised, and the values of the call's locals on the way: the series after
\* the filter and after the smoothing, the algorithm after the auto block,
\* the block that produced the result
Forecast(filtered, smoothed, sel, fit) ==
    [raised |-> fit.raised, preds |-> fit.preds, se |-> fit.se,
     used |-> fit.used, filtered |-> filtered, smoothed |-> smoothed,
     chosen |-> sel.algo, linear_mse |-> sel.linear_mse,
     poly_mse |-> sel.poly_mse]

\* lines 89-152 on the filtered and smoothed values
ForecastSelected(filtered, smoothed, sel, steps, hasSM, holt) ==
    Forecast(filtered, smoothed, sel, FitStep(smoothed, steps, sel.algo, hasSM, holt))

\* lines 85-152 on the filtered values
ForecastFiltered(filtered, steps, algo, hasSM, holt) ==
    ForecastSelected(filtered, SmoothStep(filtered),
                     SelectAlgo(SmoothStep(filtered), algo, hasSM), steps, hasSM, holt)

\* forecast_series(values, steps, algo), with the module flag _HAS_SM and the
\* outcome of the Holt fit as parameters
ForecastSeries(values, steps, algo, hasSM, holt) ==
    IF Len(values) = 0
    THEN [raised |-> FALSE, preds |-> <<>>, se |-> R(0), used |-> "none",
          filtered |-> <<>>, smoothed |-> <<>>, chosen |-> "none",
          linear_mse |-> NaN, poly_mse |-> NaN]
    ELSE ForecastFiltered(OutlierStep(values), steps, algo, hasSM, holt)

(***************************************************************************)
(* Frames                                                                  *)
(***************************************************************************)
\* a missing date
NaT == -1

\* date + days, NaT staying NaT
DatePlus(date, days) == IF date = NaT THEN NaT ELSE date + days

\* sort_values("date") compares dates, with the missing ones last
DateLe(a, b) == b = NaT \/ (a # NaT /\ a <= b)

RECURSIVE InsertRow(_, _)
InsertRow(r, s) ==
    IF s = <<>> THEN <<r>>
    ELSE IF DateLe(r.date, Head(s).date) THEN <<r>> \o s
    ELSE <<Head(s)>> \o InsertRow(r, Tail(s))

\* df.sort_values("date"): rows of equal date keep their order (the frames
\* here are far below the size from which numpy's quicksort stops being an
\* insertion sort)
RECURSIVE SortByDate(_)
SortByDate(s) == IF s = <<>> THEN <<>> ELSE InsertRow(Head(s), SortByDate(Tail(s)))

\* df.dropna(subset=[...]) over the columns date (when asked) and body_weight_lbs
DropNa(frame, withDate) ==
    SelectSeq(frame, LAMBDA r : (withDate => r.date # NaT) /\ ~IsNaN(r.w))

LastN(s, n) == SubSeq(s, Len(s) - n + 1, Len(s))

\* the rows of a result frame
ActualRow(date, y) ==
    [date |-> date, value |-> y, lower |-> y, upper |-> y, kind |-> "actual"]

PredRow(date, value, lower, upper) ==
    [date |-> date, value |-> value, lower |-> lower, upper |-> upper, kind |-> "pred"]

Returned(rows) == [raised |-> FALSE, rows |-> rows]

Raised == [raised |-> TRUE, rows |-> <<>>]

(***************************************************************************)
(* forecast_weight_realistic                                               *)
(***************************************************************************)
\* np.exp(np.linspace(-2, 0, n)), in hundredths
ExpWeights(n) ==
    CASE n = 1 -> <<14>>
      [] n = 2 -> <<14, 100>>
      [] n = 3 -> <<14, 37, 100>>
      [] n = 4 -> <<14, 26, 51, 100>>
      [] n = 5 -> <<14, 22, 37, 61, 100>>
      [] n = 6 -> <<14, 20, 30, 45, 67, 100>>
      [] n = 7 -> <<14, 19, 26, 37, 51, 72, 100>>

RECURSIVE IntSum(_)
IntSum(s) == IF s = <<>> THEN 0 ELSE Head(s) + IntSum(Tail(s))

\* a variant of the recency weights without the normalisation of line 217
RecencyWeightsRaw(n) == [i \in 1..n |-> RNorm(ExpWeights(n)[i], 100)]

\* lines 216-217: the recency weights, normalised to sum to 1
RecencyWeights(n) == [i \in 1..n |-> RNorm(ExpWeights(n)[i], IntSum(ExpWeights(n)))]

\* line 237: np.arange(t_last + 1, t_last + horizon + 1) has
\* ceil(((t_last + horizon) + 1) - (t_last + 1)) elements, in doubles, with
\* t_last = days / 7.0.  For these (days, horizon) the difference rounds to
\* just above horizon and the array has horizon + 1 elements (days up to 48,
\* horizon up to 8).
ArangeOvershoot ==
    {<<3, 1>>, <<5, 7>>, <<6, 3>>, <<9, 7>>, <<12, 6>>, <<13, 2>>, <<13, 3>>,
     <<17, 1>>, <<17, 2>>, <<17, 3>>, <<19, 5>>, <<19, 6>>, <<19, 7>>,
     <<20, 1>>, <<20, 2>>, <<20, 3>>} \cup
    {<<d, h>> : d \in {26}, h \in 4..7} \cup
    {<<d, h>> : d \in {33, 34}, h \in 3..7} \cup
    {<<d, h>> : d \in {40, 41}, h \in 2..7} \cup
    {<<d, h>> : d \in {47, 48}, h \in 1..7}

ArangeLen(days, horizon) ==
    IF <<days, horizon>> \in ArangeOvershoot THEN horizon + 1 ELSE Max2(horizon, 0)

NoTarget == [none |-> TRUE, pct |-> R(0)]

Target(pct) == [none |-> FALSE, pct |-> pct]

\* abs(x) > 1e-9, for a number n/d: |n| * 10^9 > d
AboveEps(x) == ~IsNaN(x) /\ Abs(x.n) > x.d \div 1000000000

\* lines 225-228: the weekly slope, from the target rate or the fitted trend
TargetSlope(curr, slope_est, target) ==
    IF ~target.none /\ AboveEps(target.pct)
    THEN RMul(curr, RDiv(target.pct, R(100)))
    ELSE slope_est

\* a variant of the slope choice without the clamp of line 232
ClampedSlopeNoClip(curr, slope_est, target, max_abs_rate_pct) ==
    TargetSlope(curr, slope_est, target)

\* lines 225-232: the weekly slope, clamped to +/- max_abs_rate_pct percent
\* of the current weight
ClampedSlope(curr, slope_est, target, max_abs_rate_pct) ==
    RClip(TargetSlope(curr, slope_est, target),
          RNeg(RMul(RDiv(max_abs_rate_pct, R(100)), curr)),
          RMul(RDiv(max_abs_rate_pct, R(100)), curr))

\* the sum of w[i] * x[i]
WSum(w, x) == RSum([i \in 1..Len(w) |-> RMul(w[i], x[i])])

Times(x, y) == [i \in 1..Len(x) |-> RMul(x[i], y[i])]

\* np.linalg.solve of [[S, St], [St, Stt]] beta = [Sy, Sty], det the
\* determinant: singular when it is zero
Solve(S, St, Stt, Sy, Sty, det) ==
    IF det.n = 0 THEN [singular |-> TRUE, b0 |-> NaN, b1 |-> NaN]
    ELSE [singular |-> FALSE,
          b0 |-> RDiv(RSub(RMul(Stt, Sy), RMul(St, Sty)), det),
          b1 |-> RDiv(RSub(RMul(S, Sty), RMul(St, Sy)), det)]

\* lines 219-223: the weighted least squares line through (t, y) with the
\* weights w, by the normal equations X^T W X beta = X^T W y
WeightedFit(t, y, w) ==
    Solve(RSum(w), WSum(w, t), WSum(w, Times(t, t)), WSum(w, y), WSum(w, Times(t, y)),
          RSub(RMul(RSum(w), WSum(w, Times(t, t))), RSq(WSum(w, t))))

\* lines 240-244: the standard error of the weighted residuals (the
\* residuals in fixed point)
WeightedSE(t, y, w, beta, yAll) ==
    IF Len(t) > 1
    THEN RSqrt(RMean([i \in 1..Len(t) |->
             RMul(RSq(ToFP(RSub(y[i], RAdd(beta.b0, RMul(beta.b1, t[i]))))), w[i])]))
    ELSE IF Len(yAll) > 1
    THEN RSqrt(MSE(yAll, [i \in 1..Len(yAll) |-> RMean(yAll)]))
    ELSE R(1)

\* the locals of a call of forecast_weight_realistic
NoLocals ==
    [curr |-> NaN, slope_est |-> NaN, slope |-> NaN, weights |-> <<>>, se |-> NaN]

Locals(curr, slope_est, slope, weights, se) ==
    [curr |-> curr, slope_est |-> slope_est, slope |-> slope,
     weights |-> weights, se |-> se]

\* a variant of the band row whose band lies below the prediction only
HalfBandRowBelow(date, pred, half) == PredRow(date, pred, RSub(pred, half), pred)

\* a pred row with the band value -/+ half
HalfBandRow(date, pred, half) == PredRow(date, pred, RSub(pred, half), RAdd(pred, half))

\* lines 234-253: the future dates, the predictions curr + slope * k, the
\* band widening by a tenth a week, and the frame; preds and the dates differ
\* in length where np.arange overshoots
RealisticFrame(d, horizon_weeks, l) ==
    IF ArangeLen(d[Len(d)].date - d[1].date, horizon_weeks) # Max2(horizon_weeks, 0)
    THEN Raised @@ l
    ELSE Returned(
             [i \in 1..Len(d) |-> ActualRow(d[i].date, d[i].w)] \o
             [k \in 1..Max2(horizon_weeks, 0) |->
                 HalfBandRow(d[Len(d)].date + 7 * k,
                             RAdd(l.curr, RMul(l.slope, R(k))),
                             RMul(RMul(Z196, l.se), RNorm(10 + k, 10)))]) @@ l

\* lines 222-244, beta being the solution of line 222
RealisticFitted(d, y, horizon_weeks, target, max_abs_rate_pct, t_recent, y_recent, weights, beta) ==
    IF beta.singular
    THEN Raised @@ [NoLocals EXCEPT !.curr = y[Len(y)], !.weights = weights]
    ELSE RealisticFrame(d, horizon_weeks,
             Locals(y[Len(y)], ToFP2(beta.b1),
                    ClampedSlope(y[Len(y)], ToFP2(beta.b1), target, max_abs_rate_pct),
                    weights,
                    WeightedSE(t_recent, y_recent, weights, beta, y)))

\* lines 210-223: the last n points and their weights
RealisticRecent(d, t, y, n, horizon_weeks, target, max_abs_rate_pct) ==
    RealisticFitted(d, y, horizon_weeks, target, max_abs_rate_pct,
                    LastN(t, n), LastN(y, n), RecencyWeights(n),
                    WeightedFit(LastN(t, n), LastN(y, n), RecencyWeights(n)))

\* lines 201-213, d being the sorted frame of the rows with a date and a weight
RealisticSorted(d, horizon_weeks, target, recent_weeks, max_abs_rate_pct) ==
    IF d = <<>> THEN Returned(<<>>) @@ NoLocals
    ELSE RealisticRecent(d,
             [i \in 1..Len(d) |-> RNorm(d[i].date - d[1].date, 7)],
             [i \in 1..Len(d) |-> d[i].w],
             Min2(Len(d), Max2(3, recent_weeks)),
             horizon_weeks, target, max_abs_rate_pct)

\* forecast_weight_realistic(bw_df, horizon_weeks, target_rate_pct,
\* recent_weeks, max_abs_rate_pct).  The record holds the returned frame
\* (rows) or raised, and the call's locals curr, slope_est, slope, weights, se.
ForecastWeightRealistic(frame, horizon_weeks, target, recent_weeks, max_abs_rate_pct) ==
    IF frame = <<>> THEN Returned(<<>>) @@ NoLocals
    ELSE RealisticSorted(SortByDate(DropNa(frame, TRUE)), horizon_weeks, target,
                         recent_weeks, max_abs_rate_pct)

(***************************************************************************)
(* forecast_weight_confidence                                              *)
(***************************************************************************)
\* a variant of the lower band with the sign of the upper one
BandLowerAdded(pred, se) == RAdd(pred, RMul(Z196, se))

\* the band of a prediction: preds -/+ 1.96 * se
BandLower(pred, se) == RSub(pred, RMul(Z196, se))

BandUpper(pred, se) == RAdd(pred, RMul(Z196, se))

BandRow(date, pred, se) == PredRow(date, pred, BandLower(pred, se), BandUpper(pred, se))

\* lines 179-187, fs being what forecast_series returned on the weights
ConfidenceFrame(d, horizon_weeks, fs) ==
    IF fs.raised \/ d = <<>> THEN Raised
    ELSE Returned(
             [i \in 1..Len(d) |-> ActualRow(d[i].date, d[i].w)] \o
             [k \in 1..horizon_weeks |->
                 BandRow(DatePlus(d[Len(d)].date, 7 * k), fs.preds[k], fs.se)])

ConfidenceSorted(d, horizon_weeks, algo, hasSM, holt) ==
    ConfidenceFrame(d, horizon_weeks,
        ForecastSeries([i \in 1..Len(d) |-> d[i].w], horizon_weeks, algo, hasSM, holt))

\* forecast_weight_confidence(bw_df, horizon_weeks, algo): the rows without a
\* weight are dropped, the rows without a date are not
ForecastWeightConfidence(frame, horizon_weeks, algo, hasSM, holt) ==
    IF frame = <<>> THEN Returned(<<>>)
    ELSE ConfidenceSorted(SortByDate(DropNa(frame, FALSE)), horizon_weeks, algo,
                          hasSM, holt)

(***************************************************************************)
(* forecast_weight_energy                                                  *)
(***************************************************************************)
\* 2.20462 lbs in a kg
LbsPerKg == RNorm(220462, 100000)

\* calories_to_weight_change_kg(deficit_kcal, adapt = 0.75)
CaloriesToWeightChangeKg(deficit_kcal) ==
    RMul(RDiv(deficit_kcal, R(7700)), RNorm(3, 4))

\* Series.std(ddof=1)
SampleStd(x) ==
    RSqrt(RDiv(RSum([i \in 1..Len(x) |-> RSq(RSub(x[i], RMean(x)))]), R(Len(x) - 1)))

\* lines 290-291: the mean balance of the last smooth_days days
LastBalance(window) == RMean([i \in 1..Len(window) |-> window[i].balance_kcal])

\* a variant of the daily change that takes the size of the balance, without
\* its sign
DailyKgOfSize(last_bal, max_weekly_kg) ==
    RClip(CaloriesToWeightChangeKg(RAbs(last_bal)),
          RDiv(RNeg(max_weekly_kg), R(7)), RDiv(max_weekly_kg, R(7)))

\* a variant of the daily change without the clamp of line 297
DailyKgUnclamped(last_bal, max_weekly_kg) == CaloriesToWeightChangeKg(last_bal)

\* lines 293-297: the daily change in kg, clamped to the weekly maximum
DailyKg(last_bal, max_weekly_kg) ==
    RClip(CaloriesToWeightChangeKg(last_bal),
          RDiv(RNeg(max_weekly_kg), R(7)), RDiv(max_weekly_kg, R(7)))

\* lines 304-306: the spread of the last 14 weigh-ins
RecentStd(recent) ==
    IF Len(recent) >= 2 THEN SampleStd([i \in 1..Len(recent) |-> recent[i].w])
    ELSE R(1)

\* lines 299-319: the daily projection, of which future.iloc[::7] keeps the
\* rows of the days 1, 8, 15, ...
EnergyFrame(d_w, horizon_weeks, curr_w_kg, daily_kg, sd) ==
    Returned(
        [i \in 1..Len(d_w) |-> ActualRow(d_w[i].date, d_w[i].w)] \o
        [k \in 1..horizon_weeks |->
            BandRow(d_w[Len(d_w)].date + 7 * (k - 1) + 1,
                    RMul(RAdd(curr_w_kg, RMul(daily_kg, R(7 * (k - 1) + 1))), LbsPerKg),
                    sd)])
    @@ [daily_kg |-> daily_kg, sd |-> sd, curr_w_kg |-> curr_w_kg]

\* lines 288-306, curr_w_kg being the current weight in kg
EnergyRates(d_w, db, horizon_weeks, smooth_days, max_abs_rate_pct, curr_w_kg) ==
    EnergyFrame(d_w, horizon_weeks, curr_w_kg,
                DailyKg(LastBalance(LastN(db, Min2(smooth_days, Len(db)))),
                        RMul(RDiv(max_abs_rate_pct, R(100)), curr_w_kg)),
                RecentStd(LastN(d_w, Min2(14, Len(d_w)))))

\* lines 287-288: iloc[-1] of the sorted weights, which raises on none
EnergySorted(d_w, db, horizon_weeks, smooth_days, max_abs_rate_pct) ==
    IF d_w = <<>> THEN Raised
    ELSE EnergyRates(d_w, db, horizon_weeks, smooth_days, max_abs_rate_pct,
                     RDiv(d_w[Len(d_w)].w, LbsPerKg))

\* forecast_weight_energy(bw_df, daily_balance, horizon_weeks, smooth_days,
\* max_abs_rate_pct); daily_balance holds rows (date, balance_kcal)
ForecastWeightEnergy(frame, daily_balance, horizon_weeks, smooth_days, max_abs_rate_pct) ==
    IF frame = <<>> \/ daily_balance = <<>> THEN Returned(<<>>)
    ELSE EnergySorted(SortByDate(DropNa(frame, TRUE)), SortByDate(daily_balance),
                      horizon_weeks, smooth_days, max_abs_rate_pct)

(***************************************************************************)
(* forecast_weight_multifeature                                            *)
(***************************************************************************)
\* the ISO week of a date, day 0 being Monday 2024-01-01 (days 0..363)
IsoWeek(date) == date \div 7 + 1

\* _year_week_index: the key "2024-W<week>"; the keys of one year compare as
\* the strings of their week numbers
WeekDigits(week) == IF week < 10 THEN <<week>> ELSE <<week \div 10, week % 10>>

YearWeekLess(a, b) ==
    IF WeekDigits(a)[1] # WeekDigits(b)[1] THEN WeekDigits(a)[1] < WeekDigits(b)[1]
    ELSE IF Len(WeekDigits(a)) = 1 THEN Len(WeekDigits(b)) = 2
    ELSE Len(WeekDigits(b)) = 2 /\ WeekDigits(a)[2] < WeekDigits(b)[2]

\* the first key of a set of keys
FirstKey(S) == CHOOSE k \in S : \A o \in S \ {k} : YearWeekLess(k, o)

\* groupby("yw") orders the groups by key
RECURSIVE GroupKeys(_)
GroupKeys(S) == IF S = {} THEN <<>> ELSE <<FirstKey(S)>> \o GroupKeys(S \ {FirstKey(S)})

Amounts(g) == RSum([i \in 1..Len(g) |-> R(g[i].amount)])

\* the weekly sum of a meals or workouts frame of rows (date, amount) for one
\* week, 0 where the week has no row (the left merge and fillna(0.0))
WeeklyTotal(rows, week) ==
    Amounts(SelectSeq(rows, LAMBDA r : r.date # NaT /\ IsoWeek(r.date) = week))

\* lines 337-361: the row of one week, g being the weigh-ins of the week
WeekRow(g, week, meals, workouts) ==
    [yw |-> week,
     date |-> CHOOSE m \in {g[i].date : i \in 1..Len(g)} :
                  \A i \in 1..Len(g) : g[i].date <= m,
     weight |-> RMean([i \in 1..Len(g) |-> g[i].w]),
     weekly_calories |-> WeeklyTotal(meals, week),
     weekly_volume |-> WeeklyTotal(workouts, week)]

\* the weekly frame df, one row a key
MergedWeeks(d_bw, keys, meals, workouts) ==
    [j \in 1..Len(keys) |->
        WeekRow(SelectSeq(d_bw, LAMBDA r : IsoWeek(r.date) = keys[j]), keys[j],
                meals, workouts)]

Dot(a, b) == RSum([i \in 1..Len(a) |-> RMul(a[i], b[i])])

Centered(x) == [i \in 1..Len(x) |-> RSub(x[i], RMean(x))]

\* the coefficients of the centred least squares, from the moments of the
\* centred columns; where these are dependent (det = 0) the minimum-norm
\* solution: centred X = u a^T gives coef = a (u.y) / (|a|^2 |u|^2), that is
\* X^T y over the trace of X^T X
CenteredCoef(Scc, Svv, Scv, Scy, Svy, det) ==
    IF det.n # 0
    THEN <<RDiv(RSub(RMul(Svv, Scy), RMul(Scv, Svy)), det),
           RDiv(RSub(RMul(Scc, Svy), RMul(Scv, Scy)), det)>>
    ELSE IF Scc.n = 0 /\ Svv.n = 0 THEN <<R(0), R(0)>>
    ELSE <<RDiv(Scy, RAdd(Scc, Svv)), RDiv(Svy, RAdd(Scc, Svv))>>

Moments(cc, vc, yc) ==
    CenteredCoef(Dot(cc, cc), Dot(vc, vc), Dot(cc, vc), Dot(cc, yc), Dot(vc, yc),
                 RSub(RMul(Dot(cc, cc), Dot(vc, vc)), RSq(Dot(cc, vc))))

WithIntercept(c, v, y, coef) ==
    [intercept |-> RSub(RMean(y), RAdd(RMul(coef[1], RMean(c)), RMul(coef[2], RMean(v)))),
     coef |-> coef]

\* LinearRegression().fit(X, y) with the two columns c and v of X: least
\* squares with an intercept, the minimum-norm solution where the centred
\* columns are dependent
LinearRegression2(c, v, y) ==
    WithIntercept(c, v, y, Moments(Centered(c), Centered(v), Centered(y)))

\* model.predict, kept to 1/FP^2
PredictAt(model, fc, fv) ==
    ToFP2(RAdd(model.intercept, RAdd(RMul(model.coef[1], fc), RMul(model.coef[2], fv))))

Default == [none |-> TRUE, val |-> R(0)]

Given(val) == [none |-> FALSE, val |-> val]

\* lines 387-390: the given future value, or the mean of the last 4 weeks
FutureValue(arg, column) == IF arg.none THEN RMean(LastN(column, 4)) ELSE arg.val

\* the actual rows of the weeks and horizon_weeks pred rows of one value
MultifeatureFrame(df, horizon_weeks, pred, lower, upper) ==
    Returned([i \in 1..Len(df) |-> ActualRow(df[i].date, df[i].weight)] \o
             [k \in 1..horizon_weeks |->
                 PredRow(df[Len(df)].date + 7 * k, pred, lower, upper)])

MultifeatureBanded(df, horizon_weeks, pred, se) ==
    MultifeatureFrame(df, horizon_weeks, pred, BandLower(pred, se), BandUpper(pred, se))

\* lines 381-398, model being the regression of line 380; sklearn's predict
\* refuses the empty Xf of horizon_weeks = 0 (line 393)
MultifeaturePredicted(df, horizon_weeks, c, v, yv, future_calories, future_volume, model) ==
    IF horizon_weeks = 0 THEN Raised
    ELSE MultifeatureBanded(df, horizon_weeks,
             PredictAt(model, FutureValue(future_calories, c),
                       FutureValue(future_volume, v)),
             RSqrt(MSE(yv, [i \in 1..Len(df) |-> PredictAt(model, c[i], v[i])])))

MultifeatureFitted(df, horizon_weeks, c, v, yv, future_calories, future_volume) ==
    MultifeaturePredicted(df, horizon_weeks, c, v, yv, future_calories, future_volume,
                          LinearRegression2(c, v, yv))

\* lines 366-398 on the weekly frame df: df.iloc[-1] raises on no week, fewer
\* than 4 weeks repeat the last weight, 4 and more are regressed
MultifeatureWeeks(df, horizon_weeks, future_calories, future_volume) ==
    IF Len(df) = 0 THEN Raised
    ELSE IF Len(df) < 4
    THEN MultifeatureFrame(df, horizon_weeks, df[Len(df)].weight, df[Len(df)].weight,
                           df[Len(df)].weight)
    ELSE MultifeatureFitted(df, horizon_weeks,
             [i \in 1..Len(df) |-> df[i].weekly_calories],
             [i \in 1..Len(df) |-> df[i].weekly_volume],
             [i \in 1..Len(df) |-> df[i].weight],
             future_calories, future_volume)

MultifeatureDropped(d_bw, meals, workouts, horizon_weeks, future_calories, future_volume) ==
    MultifeatureWeeks(
        MergedWeeks(d_bw, GroupKeys({IsoWeek(d_bw[i].date) : i \in 1..Len(d_bw)}),
                    meals, workouts),
        horizon_weeks, future_calories, future_volume)

\* forecast_weight_multifeature(bw_df, meals_df, workouts_df, horizon_weeks,
\* future_calories, future_volume); meals and workouts hold rows (date, amount)
ForecastWeightMultifeature(frame, meals, workouts, horizon_weeks, future_calories, future_volume) ==
    IF frame = <<>> THEN Returned(<<>>)
    ELSE MultifeatureDropped(DropNa(frame, TRUE), meals, workouts, horizon_weeks,
                             future_calories, future_volume)

(***************************************************************************)
(* forecast_1rm                                                            *)
(***************************************************************************)
\* lines 161-170: the actual frame has the columns t, value and kind only, so
\* the concatenation leaves its lower and upper missing
OneRMFrame(y, steps, fs) ==
    IF fs.raised THEN Raised
    ELSE Returned(
             [i \in 1..Len(y) |->
                 [t |-> i - 1, value |-> y[i], lower |-> NaN, upper |-> NaN,
                  kind |-> "actual"]] \o
             [k \in 1..steps |->
                 [t |-> Len(y) + k - 1, value |-> fs.preds[k],
                  lower |-> BandLower(fs.preds[k], fs.se),
                  upper |-> BandUpper(fs.preds[k], fs.se), kind |-> "pred"]])

\* lines 157-160 on the weekly bests y without the missing ones
OneRMSeries(y, steps, algo, hasSM, holt) ==
    IF y = <<>> THEN Returned(<<>>)
    ELSE OneRMFrame(y, steps,
             ForecastSeries(y, steps,
                 IF algo = "holt" THEN "holt"
                 ELSE IF algo = "linear" THEN "linear" ELSE "auto",
                 hasSM, holt))

\* forecast_1rm(weekly_best_df, steps, algo): best_1rm is the column of the
\* frame
Forecast1RM(best_1rm, steps, algo, hasSM, holt) ==
    OneRMSeries(SelectSeq(best_1rm, LAMBDA x : ~IsNaN(x)), steps, algo, hasSM, holt)

(***************************************************************************)
(* State                                                                   *)
(***************************************************************************)
VARIABLES
    series,   \* the array a caller holds for forecast_series
    bw,       \* the body-weight frame a caller holds
    res,      \* the last call made: its arguments, what it computed, its result
    csv,      \* the rows of data/bodyweight.csv
    table     \* the rows of the bodyweight table of the database

vars == <<series, bw, res, csv, table>>

NoCall == [op |-> "none"]

(***************************************************************************)
(* The series calls                                                        *)
(***************************************************************************)
\* the longest input series
MaxLen == 6

SeriesVals == {1, 2, 10}

StepsArgs == {0, 2}

Algos == {"auto", "holt", "linear", "poly"}

SeriesInputs ==
    UNION {[1..n -> {R(v) : v \in SeriesVals}] : n \in 0..MaxLen}

\* the Holt outcomes to try for a call: all of them where the Holt block can
\* run, one where it cannot
HoltFor(algo, hasSM) ==
    IF hasSM /\ algo \in {"auto", "holt"} THEN HoltOutcomes
    ELSE {[raises |-> TRUE, resid |-> 0, trend |-> 0]}

\* one call of forecast_series(series, steps, algo)
ForecastSeriesCall ==
    \E steps \in StepsArgs, algo \in Algos, hasSM \in BOOLEAN :
        \E holt \in HoltFor(algo, hasSM) :
            /\ res = NoCall
            /\ res' = [op |-> "forecast_series", steps |-> steps, algo |-> algo,
                       hasSM |-> hasSM, holt |-> holt,
                       ret |-> ForecastSeries(series, steps, algo, hasSM, holt)]
            /\ UNCHANGED <<series, bw, csv, table>>

InitSeries ==
    /\ series \in SeriesInputs
    /\ bw = <<>>
    /\ res = NoCall
    /\ csv = <<>>
    /\ table = <<>>

NextSeries == ForecastSeriesCall

SpecSeries == InitSeries /\ [][NextSeries]_vars

(***************************************************************************)
(* The body-weight calls                                                   *)
(***************************************************************************)
\* the most rows of an irregular frame
MaxRows == 2

\* the most rows of a weekly frame
MaxWeeks == 6

\* the rows of the irregular frames: dates apart by 3 and 7 days, a date
\* twice, a row without a weight, a row without a date
FrameRows ==
    {[date |-> 0, w |-> R(180)], [date |-> 0, w |-> R(170)],
     [date |-> 3, w |-> R(170)], [date |-> 7, w |-> R(179)],
     [date |-> 4, w |-> R(180)],
     [date |-> 3, w |-> NaN],    [date |-> NaT, w |-> R(170)]}

IrregularFrames == UNION {[1..n -> FrameRows] : n \in 0..MaxRows}

WeeklyDeltas == {-1, 2}

\* one weigh-in a week from 180 lbs, each a delta away from the one before
WeeklyFrame(deltas) ==
    [i \in 1..(Len(deltas) + 1) |->
        [date |-> 7 * (i - 1),
         w |-> R(180 + IntSum(SubSeq(deltas, 1, i - 1)))]]

WeeklyFrames ==
    {WeeklyFrame(ds) : ds \in UNION {[1..n -> WeeklyDeltas] : n \in 2..(MaxWeeks - 1)}}

\* the frames a call may hold; the last has a weigh-in on the Monday of ISO
\* week 9 and one on the Monday of ISO week 10
Frames ==
    IrregularFrames \cup WeeklyFrames \cup
    {<<[date |-> 56, w |-> R(180)], [date |-> 63, w |-> R(179)]>>}

HorizonArgs == {0, 1, 8}

TargetArgs == {NoTarget, Target(R(0)), Target(RNorm(-7, 10)), Target(R(5))}

RecentWeeksArgs == {2, 6}

\* max_abs_rate_pct = 1.5, the default
MaxAbsRatePct == RNorm(3, 2)

BalanceInputs ==
    {<<>>,
     <<[date |-> 0, balance_kcal |-> R(0)]>>,
     <<[date |-> 0, balance_kcal |-> R(-500)]>>,
     <<[date |-> 0, balance_kcal |-> R(-9000)]>>,
     <<[date |-> 1, balance_kcal |-> R(1000)], [date |-> 0, balance_kcal |-> R(0)]>>}

SmoothDaysArgs == {1, 7}

MealsInputs ==
    {<<>>,
     [i \in 1..(MaxWeeks + 1) |->
         [date |-> IF i = 2 THEN NaT ELSE 7 * (i - 1) + 1, amount |-> 10 + ((i * i) % 5)]]}

WorkoutsInputs ==
    {<<>>, [i \in 1..3 |-> [date |-> 14 * (i - 1), amount |-> 3 * i]]}

FutureCaloriesArgs == {Default, Given(R(12))}

\* one call of forecast_weight_realistic(bw, horizon_weeks, target_rate_pct,
\* recent_weeks)
ForecastWeightRealisticCall ==
    \E horizon_weeks \in HorizonArgs, target \in TargetArgs, recent_weeks \in RecentWeeksArgs :
        /\ res = NoCall
        /\ res' = [op |-> "forecast_weight_realistic", horizon_weeks |-> horizon_weeks,
                   target |-> target, recent_weeks |-> recent_weeks,
                   max_abs_rate_pct |-> MaxAbsRatePct,
                   ret |-> ForecastWeightRealistic(bw, horizon_weeks, target,
                                                   recent_weeks, MaxAbsRatePct)]
        /\ UNCHANGED <<series, bw, csv, table>>

\* one call of forecast_weight_confidence(bw, horizon_weeks, algo)
ForecastWeightConfidenceCall ==
    \E horizon_weeks \in HorizonArgs, algo \in {"auto", "holt", "linear"}, hasSM \in BOOLEAN :
        \E holt \in HoltFor(algo, hasSM) :
            /\ res = NoCall
            /\ res' = [op |-> "forecast_weight_confidence", horizon_weeks |-> horizon_weeks,
                       algo |-> algo, hasSM |-> hasSM, holt |-> holt,
                       ret |-> ForecastWeightConfidence(bw, horizon_weeks, algo, hasSM, holt)]
            /\ UNCHANGED <<series, bw, csv, table>>

\* one call of forecast_weight_energy(bw, daily_balance, horizon_weeks, smooth_days)
ForecastWeightEnergyCall ==
    \E horizon_weeks \in HorizonArgs, daily_balance \in BalanceInputs,
       smooth_days \in SmoothDaysArgs :
        /\ res = NoCall
        /\ res' = [op |-> "forecast_weight_energy", horizon_weeks |-> horizon_weeks,
                   daily_balance |-> daily_balance, smooth_days |-> smooth_days,
                   max_abs_rate_pct |-> MaxAbsRatePct,
                   ret |-> ForecastWeightEnergy(bw, daily_balance, horizon_weeks,
                                                smooth_days, MaxAbsRatePct)]
        /\ UNCHANGED <<series, bw, csv, table>>

\* one call of forecast_weight_multifeature(bw, meals_df, workouts_df,
\* horizon_weeks, future_calories)
ForecastWeightMultifeatureCall ==
    \E horizon_weeks \in HorizonArgs, meals \in MealsInputs, workouts \in WorkoutsInputs,
       future_calories \in FutureCaloriesArgs :
        /\ res = NoCall
        /\ res' = [op |-> "forecast_weight_multifeature", horizon_weeks |-> horizon_weeks,
                   meals |-> meals, workouts |-> workouts,
                   future_calories |-> future_calories,
                   ret |-> ForecastWeightMultifeature(bw, meals, workouts, horizon_weeks,
                                                      future_calories, Default)]
        /\ UNCHANGED <<series, bw, csv, table>>

InitWeight ==
    /\ series = <<>>
    /\ bw \in Frames
    /\ res = NoCall
    /\ csv = <<>>
    /\ table = <<>>

NextWeight ==
    \/ ForecastWeightRealisticCall
    \/ ForecastWeightConfidenceCall
    \/ ForecastWeightEnergyCall
    \/ ForecastWeightMultifeatureCall

SpecWeight == InitWeight /\ [][NextWeight]_vars

(***************************************************************************)
(* The 1RM calls                                                           *)
(***************************************************************************)
\* the most rows of a weekly-best frame
MaxBest == 3

BestInputs ==
    UNION {[1..n -> {NaN, R(100), R(110)}] : n \in 0..MaxBest}

\* one call of forecast_1rm(weekly_best_df, steps, algo), series being the
\* best_1rm column of the frame
Forecast1RMCall ==
    \E steps \in StepsArgs, algo \in {"auto", "holt", "linear"}, hasSM \in BOOLEAN :
        \E holt \in HoltFor(algo, hasSM) :
            /\ res = NoCall
            /\ res' = [op |-> "forecast_1rm", steps |-> steps, algo |-> algo,
                       hasSM |-> hasSM, holt |-> holt,
                       ret |-> Forecast1RM(series, steps, algo, hasSM, holt)]
            /\ UNCHANGED <<series, bw, csv, table>>

Init1RM ==
    /\ series \in BestInputs
    /\ bw = <<>>
    /\ res = NoCall
    /\ csv = <<>>
    /\ table = <<>>

Next1RM == Forecast1RMCall

Spec1RM == Init1RM /\ [][Next1RM]_vars

(***************************************************************************)
(* Claims about forecast_series                                            *)
(***************************************************************************)
SeriesCalled == res.op = "forecast_series" /\ Len(series) > 0

SeriesReturned == SeriesCalled /\ ~res.ret.raised

\* C6: the outlier step keeps, in the original order, exactly the values
\* inside [Q1 - 1.5*IQR, Q3 + 1.5*IQR] when n > 4 and IQR > 0, returns the
\* series unchanged when n <= 4 or IQR = 0, and never returns an empty series.
C6_OutlierReference ==
    SeriesCalled =>
        LET n   == Len(series)
            q1  == Percentile(series, 1)
            q3  == Percentile(series, 3)
            iqr == RSub(q3, q1)
            Inside(v) == /\ RLe(RSub(q1, RMul(RNorm(3, 2), iqr)), v)
                         /\ RLe(v, RAdd(q3, RMul(RNorm(3, 2), iqr)))
        IN  /\ Len(res.ret.filtered) > 0
            /\ IF n > 4 /\ iqr.n > 0
               THEN res.ret.filtered = SelectSeq(series, Inside)
               ELSE res.ret.filtered = series

\* C6 witness: a call whose outlier step removed a value and kept the rest
C6_Witness ==
    /\ SeriesReturned
    /\ Len(res.ret.filtered) < Len(series)
    /\ Len(res.ret.filtered) > 0

\* the contiguous window of `window` positions the smoothing averages for
\* position i: centred for an odd size; for size 2 the position and the one
\* before it
WindowAt(i, window) == (i - window \div 2)..(i - window \div 2 + window - 1)

\* C7: for n >= 5 values after the outlier filter, the smoothing step leaves
\* the first and the last value unchanged and replaces every interior value
\* by the mean of the window of size min(3, n div 2) on it; for n < 5 the
\* series is unchanged.
C7_SmoothingReference ==
    SeriesCalled =>
        LET f == res.ret.filtered
            s == res.ret.smoothed
            n == Len(f)
            w == Min2(3, n \div 2)
        IN  IF n < 5 THEN s = f
            ELSE /\ Len(s) = n
                 /\ s[1] = f[1]
                 /\ s[n] = f[n]
                 /\ \A i \in 2..(n - 1) :
                        /\ WindowAt(i, w) \subseteq 1..n
                        /\ Cardinality(WindowAt(i, w)) = w
                        /\ i \in WindowAt(i, w)
                        /\ RMul(s[i], R(w)) =
                               RSum([j \in 1..w |-> f[i - w \div 2 + j - 1]])

\* C7 witness: five values after the filter (window 2), changed by the smoothing
C7_Witness ==
    /\ SeriesReturned
    /\ Len(res.ret.filtered) = 5
    /\ res.ret.smoothed # res.ret.filtered

\* C7 second case: six values after the filter (window 3), changed
C7_WitnessWindow3 ==
    /\ SeriesReturned
    /\ Len(res.ret.filtered) = 6
    /\ res.ret.smoothed # res.ret.filtered

\* C8: with algo = auto the algorithm is Holt when it is available and
\* n >= 6; otherwise, for n >= 4, polynomial exactly when the polynomial MSE
\* is below 0.8 x the linear MSE, and linear if not; linear for n < 4 (n the
\* length after the outlier filter).  The block that produces the result is
\* the chosen one, or the linear one after a Holt fit that raised.
C8_AutoSelection ==
    (SeriesCalled /\ res.algo = "auto") =>
        LET n == Len(res.ret.filtered)
            r == res.ret
        IN  /\ r.chosen =
                  IF res.hasSM /\ n >= 6 THEN "holt"
                  ELSE IF n >= 4
                       THEN (IF RLt(RMul(R(10), r.poly_mse), RMul(R(8), r.linear_mse))
                             THEN "poly" ELSE "linear")
                       ELSE "linear"
            /\ (n >= 4 /\ ~(res.hasSM /\ n >= 6)) =>
                   (~IsNaN(r.poly_mse) /\ ~IsNaN(r.linear_mse))
            /\ ~r.raised =>
                   \/ r.used = r.chosen
                   \/ r.chosen = "holt" /\ res.holt.raises /\ r.used = "linear"

\* C8 witness: an auto call without Holt that chose the polynomial
C8_Witness ==
    /\ SeriesReturned
    /\ res.algo = "auto"
    /\ res.ret.chosen = "poly"
    /\ res.ret.used = "poly"

\* C8 further cases: Holt chosen; linear kept although the polynomial fits better
C8_WitnessHolt ==
    SeriesReturned /\ res.algo = "auto" /\ res.ret.used = "holt"

C8_WitnessMarginal ==
    /\ SeriesReturned /\ res.algo = "auto" /\ res.ret.chosen = "linear"
    /\ RLt(res.ret.poly_mse, res.ret.linear_mse)

(***************************************************************************)
(* Claims about the body-weight forecasts and forecast_1rm                 *)
(***************************************************************************)
WeightOps ==
    {"forecast_weight_realistic", "forecast_weight_confidence",
     "forecast_weight_energy", "forecast_weight_multifeature"}

RealisticCalled == res.op = "forecast_weight_realistic"

PredRows(rows) == SelectSeq(rows, LAMBDA r : r.kind = "pred")

ActualRows(rows) == SelectSeq(rows, LAMBDA r : r.kind = "actual")

\* the value of the last actual row of a returned frame
LastObserved(rows) == ActualRows(rows)[Len(ActualRows(rows))].value

\* value[k] - value[k-1] over the predicted rows, the last observed weight
\* standing before the first
WeeklyStep(rows, k) ==
    RSub(PredRows(rows)[k].value,
         IF k = 1 THEN LastObserved(rows) ELSE PredRows(rows)[k - 1].value)

\* the rows of the held frame that have a date and a weight, by date
History == SortByDate(DropNa(bw, TRUE))

\* C1: in forecast_weight_realistic, with a positive last observed weight,
\* each predicted value differs from the point before it (the last observed
\* weight for the first) by at most max_abs_rate_pct / 100 x the last
\* observed weight, whatever the horizon and the target rate.
C1_ClampInvariant ==
    (RealisticCalled /\ ~res.ret.raised /\ res.ret.rows # <<>>) =>
        LET rows  == res.ret.rows
            last  == LastObserved(rows)
            bound == RMul(RDiv(res.max_abs_rate_pct, R(100)), last)
        IN  RLt(R(0), last) =>
                \A k \in 1..Len(PredRows(rows)) : RLe(RAbs(WeeklyStep(rows, k)), bound)

\* C1 witness: a target rate above the clamp, eight predictions, each a full
\* clamp above the one before
C1_Witness ==
    /\ RealisticCalled /\ ~res.ret.raised
    /\ res.target = Target(R(5))
    /\ Len(PredRows(res.ret.rows)) = 8
    /\ \A k \in 1..8 :
           REq(WeeklyStep(res.ret.rows, k),
               RMul(RNorm(3, 200), LastObserved(res.ret.rows)))

\* C1 further case: no target, the fitted slope beyond the clamp
C1_WitnessFitted ==
    /\ RealisticCalled /\ ~res.ret.raised
    /\ res.target.none
    /\ Len(PredRows(res.ret.rows)) > 0
    /\ RLt(res.ret.slope_est, res.ret.slope)
    /\ REq(WeeklyStep(res.ret.rows, 1),
           RNeg(RMul(RNorm(3, 200), LastObserved(res.ret.rows))))

\* C2: forecast_weight_realistic on a single observation with horizon 8 does
\* not raise and returns the observation as an actual row and no predicted row.
C2_SingleObservation ==
    (RealisticCalled /\ Len(bw) = 1 /\ Len(History) = 1 /\ res.horizon_weeks = 8) =>
        /\ ~res.ret.raised
        /\ res.ret.rows = <<ActualRow(bw[1].date, bw[1].w)>>

\* C3: every row returned by the four body-weight forecasts has
\* lower <= value <= upper if its kind is pred and lower = upper = value if
\* its kind is actual.
C3_BandOrdering ==
    (res.op \in WeightOps /\ ~res.ret.raised) =>
        \A i \in 1..Len(res.ret.rows) :
            LET r == res.ret.rows[i]
            IN  /\ r.kind = "pred" => (RLe(r.lower, r.value) /\ RLe(r.value, r.upper))
                /\ r.kind = "actual" => (REq(r.lower, r.value) /\ REq(r.upper, r.value))

\* a returned frame with an actual row and a predicted row of a band wider
\* than its value
HasOpenBand(rows) ==
    /\ ActualRows(rows) # <<>>
    /\ \E i \in 1..Len(rows) :
           /\ rows[i].kind = "pred"
           /\ RLt(rows[i].lower, rows[i].value)
           /\ RLt(rows[i].value, rows[i].upper)

\* C3 witness: forecast_weight_confidence returned such a frame
C3_Witness ==
    res.op = "forecast_weight_confidence" /\ ~res.ret.raised /\ HasOpenBand(res.ret.rows)

\* C3 further cases: the other three functions
C3_WitnessRealistic ==
    RealisticCalled /\ ~res.ret.raised /\ HasOpenBand(res.ret.rows)

C3_WitnessEnergy ==
    res.op = "forecast_weight_energy" /\ ~res.ret.raised /\ HasOpenBand(res.ret.rows)

C3_WitnessMultifeature ==
    res.op = "forecast_weight_multifeature" /\ ~res.ret.raised /\ HasOpenBand(res.ret.rows)

\* C4: every actual row forecast_1rm returns has lower = upper = value, and
\* every pred row has lower <= value <= upper.
C4_1RMBands ==
    (res.op = "forecast_1rm" /\ ~res.ret.raised) =>
        \A i \in 1..Len(res.ret.rows) :
            LET r == res.ret.rows[i]
            IN  /\ r.kind = "pred" => (RLe(r.lower, r.value) /\ RLe(r.value, r.upper))
                /\ r.kind = "actual" => (REq(r.lower, r.value) /\ REq(r.upper, r.value))

\* the part of C4 the code keeps: the pred rows of forecast_1rm are ordered
C4_PredRowsOrdered ==
    (res.op = "forecast_1rm" /\ ~res.ret.raised) =>
        \A i \in 1..Len(res.ret.rows) :
            LET r == res.ret.rows[i]
            IN  r.kind = "pred" => (RLe(r.lower, r.value) /\ RLe(r.value, r.upper))

\* C5: on a non-empty frame without a row that has both a date and a weight,
\* each of the four body-weight forecasts returns an empty result and does
\* not raise (calls with a horizon of at least one week).
C5_NoValidRowEmpty ==
    (res.op \in WeightOps /\ res.horizon_weeks > 0 /\ bw # <<>> /\ History = <<>>) =>
        (~res.ret.raised /\ res.ret.rows = <<>>)

\* the part of C5 the code keeps: forecast_weight_realistic returns empty
C5_RealisticEmpty ==
    (RealisticCalled /\ bw # <<>> /\ History = <<>>) =>
        (~res.ret.raised /\ res.ret.rows = <<>>)

\* a history of at least two observations at distinct dates with strictly
\* decreasing positive weights
StrictlyDecreasingHistory ==
    /\ Len(History) >= 2
    /\ \A i \in 1..(Len(History) - 1) :
           /\ History[i].date < History[i + 1].date
           /\ RLt(History[i + 1].w, History[i].w)
    /\ RLt(R(0), History[Len(History)].w)

\* returned predictions that fall week after week from below the last
\* observed weight, each step inside the clamp
FallsWithinClamp(rows) ==
    LET bound == RMul(RDiv(res.max_abs_rate_pct, R(100)), LastObserved(rows))
    IN  \A k \in 1..Len(PredRows(rows)) :
            /\ RLt(WeeklyStep(rows, k), R(0))
            /\ RLe(RAbs(WeeklyStep(rows, k)), bound)

\* C9: forecast_weight_realistic with target_rate_pct = None on a history of
\* at least two observations at distinct dates with strictly decreasing
\* positive weights returns strictly decreasing predictions that start below
\* the last observed weight, each weekly step inside the clamp.
C9_DecreasingHistory ==
    (RealisticCalled /\ res.target.none /\ StrictlyDecreasingHistory) =>
        /\ ~res.ret.raised
        /\ Len(PredRows(res.ret.rows)) = res.horizon_weeks
        /\ FallsWithinClamp(res.ret.rows)

\* the part of C9 the code keeps: a call that returns, returns such predictions
C9_DecreasingWhenReturned ==
    (RealisticCalled /\ res.target.none /\ StrictlyDecreasingHistory /\ ~res.ret.raised) =>
        /\ Len(PredRows(res.ret.rows)) = res.horizon_weeks
        /\ FallsWithinClamp(res.ret.rows)

\* C10: forecast_weight_realistic with target_rate_pct = 0 predicts the last
\* observed weight for every future week, whatever the trend of the history.
C10_MaintainConstant ==
    (RealisticCalled /\ ~res.target.none /\ res.target.pct.n = 0 /\ ~res.ret.raised
        /\ res.ret.rows # <<>>) =>
        \A k \in 1..Len(PredRows(res.ret.rows)) :
            REq(PredRows(res.ret.rows)[k].value, LastObserved(res.ret.rows))

(***************************************************************************)
(* Claims about the fallbacks of forecast_series                           *)
(***************************************************************************)
\* C11: for a single-value series, forecast_series under every algo returns
\* the error 0 and steps predictions all equal to that value (steps positive:
\* a non-positive horizon is an invalid configuration); for an empty series
\* it returns no predictions and the error 0.
C11_ShortSeries ==
    /\ (res.op = "forecast_series" /\ Len(series) = 0) =>
           /\ ~res.ret.raised
           /\ res.ret.preds = <<>>
           /\ REq(res.ret.se, R(0))
    /\ (res.op = "forecast_series" /\ Len(series) = 1 /\ res.steps > 0) =>
           /\ ~res.ret.raised
           /\ REq(res.ret.se, R(0))
           /\ Len(res.ret.preds) = res.steps
           /\ \A k \in 1..res.steps : REq(res.ret.preds[k], series[1])

C11_Witness ==
    /\ res.op = "forecast_series" /\ Len(series) = 1 /\ res.steps = 2
    /\ res.algo = "holt" /\ res.hasSM
    /\ Len(res.ret.preds) = 2

C11_WitnessEmpty ==
    res.op = "forecast_series" /\ Len(series) = 0 /\ res.algo = "poly" /\ res.steps = 2

\* what the call made returns: raised, or the predictions and the error
Output(ret) == [raised |-> ret.raised, preds |-> ret.preds, se |-> ret.se]

\* what forecast_series returns on the held series with the arguments of the
\* call made, algo replaced
OutputWith(algo) ==
    Output(ForecastSeries(series, res.steps, algo, res.hasSM, res.holt))

\* the Holt block was entered and its fit raised
HoltRaised ==
    /\ SeriesCalled /\ res.ret.chosen = "holt" /\ res.hasSM
    /\ Len(res.ret.smoothed) >= 6 /\ res.holt.raises

\* the polynomial block was entered and raised: its predict refuses steps = 0
PolyRaised ==
    SeriesCalled /\ res.ret.chosen = "poly" /\ Len(res.ret.smoothed) >= 4 /\ res.steps = 0

\* C12: when the Holt fit or the polynomial fit raises inside forecast_series,
\* the call returns exactly what algo = linear returns for the same input,
\* and for a positive steps it does not raise.
C12_FallbackToLinear ==
    (HoltRaised \/ PolyRaised) =>
        /\ Output(res.ret) = OutputWith("linear")
        /\ res.steps > 0 => ~res.ret.raised

C12_Witness ==
    /\ HoltRaised /\ res.algo = "holt" /\ res.steps = 2
    /\ Len(res.ret.preds) = 2 /\ res.ret.used = "linear"

C12_WitnessAuto == HoltRaised /\ res.algo = "auto" /\ res.steps = 2 /\ ~res.ret.raised

C12_WitnessPoly == PolyRaised /\ res.ret.raised

\* the call asked for an estimator the filtered series is too short for
TooShortFor(algo, least) ==
    SeriesCalled /\ res.algo = algo /\ Len(res.ret.filtered) < least

\* C13: forecast_series with algo = poly and fewer than 4 points, or algo =
\* holt and fewer than 6 points (after the outlier filter), returns the same
\* output as algo = linear.
C13_TooShortDegrades ==
    (TooShortFor("poly", 4) \/ TooShortFor("holt", 6)) =>
        Output(res.ret) = OutputWith("linear")

C13_Witness ==
    /\ TooShortFor("holt", 6) /\ res.hasSM /\ ~res.holt.raises
    /\ Len(series) = 5 /\ res.steps = 2 /\ Len(res.ret.preds) = 2

C13_WitnessPoly ==
    TooShortFor("poly", 4) /\ Len(series) = 3 /\ res.steps = 2 /\ Len(res.ret.preds) = 2

\* a series of 6 points that the outlier filter shortens
C13_WitnessFiltered ==
    TooShortFor("holt", 6) /\ res.hasSM /\ Len(series) = 6 /\ ~res.ret.raised

(***************************************************************************)
(* Claims about forecast_weight_energy                                     *)
(***************************************************************************)
\* a call of forecast_weight_energy that returned a frame with rows
EnergyReturned ==
    res.op = "forecast_weight_energy" /\ ~res.ret.raised /\ res.ret.rows # <<>>

\* the mean of the last smooth_days balances of the call, by date
LastSmoothedBalance ==
    RMean([i \in 1..Min2(res.smooth_days, Len(res.daily_balance)) |->
              LastN(SortByDate(res.daily_balance),
                    Min2(res.smooth_days, Len(res.daily_balance)))[i].balance_kcal])

\* (balance / 7700) x 0.75 kg a day
UnclampedDailyKg == RMul(RDiv(LastSmoothedBalance, R(7700)), RNorm(3, 4))

\* ((max_abs_rate_pct / 100) x current mass in kg) / 7
DailyBoundKg ==
    RDiv(RMul(RDiv(res.max_abs_rate_pct, R(100)),
              RDiv(LastObserved(res.ret.rows), LbsPerKg)), R(7))

\* C14: forecast_weight_energy projects a daily change of (last smoothed
\* balance / 7700) x 0.75 kg, clamped to +/- ((max_abs_rate_pct / 100) x
\* current mass in kg) / 7 a day; two consecutive weekly predicted points are
\* 7 daily changes apart and never differ by more than max_abs_rate_pct
\* percent of the current weight.
C14_EnergyDailyChange ==
    EnergyReturned =>
        /\ IF RLt(DailyBoundKg, UnclampedDailyKg)
           THEN REq(res.ret.daily_kg, DailyBoundKg)
           ELSE IF RLt(UnclampedDailyKg, RNeg(DailyBoundKg))
           THEN REq(res.ret.daily_kg, RNeg(DailyBoundKg))
           ELSE REq(res.ret.daily_kg, UnclampedDailyKg)
        /\ \A k \in 2..Len(PredRows(res.ret.rows)) :
               /\ REq(WeeklyStep(res.ret.rows, k),
                      RMul(RMul(R(7), res.ret.daily_kg), LbsPerKg))
               /\ RLe(RAbs(WeeklyStep(res.ret.rows, k)),
                      RMul(RDiv(res.max_abs_rate_pct, R(100)),
                           LastObserved(res.ret.rows)))

\* a balance of -9000 kcal a day is clamped
C14_Witness ==
    /\ EnergyReturned /\ Len(PredRows(res.ret.rows)) = 8
    /\ REq(res.ret.daily_kg, RNeg(DailyBoundKg))
    /\ RLt(UnclampedDailyKg, res.ret.daily_kg)

\* a balance of -500 kcal a day is not: -75/1540 kg a day
C14_WitnessUnclamped ==
    /\ EnergyReturned /\ Len(PredRows(res.ret.rows)) = 8
    /\ REq(res.ret.daily_kg, RNorm(-75, 1540))

\* the date of the last actual row of a returned frame
LastObservedDate(rows) == ActualRows(rows)[Len(ActualRows(rows))].date

\* C15: forecast_weight_energy returns exactly horizon_weeks predicted points,
\* the k-th dated 7*k days after the last observed date.
C15_EnergyWeeklyDates ==
    EnergyReturned =>
        /\ Len(PredRows(res.ret.rows)) = res.horizon_weeks
        /\ \A k \in 1..Len(PredRows(res.ret.rows)) :
               PredRows(res.ret.rows)[k].date = LastObservedDate(res.ret.rows) + 7 * k

\* the part of C15 the code keeps: horizon_weeks predicted points a week
\* apart, the first one day after the last observed date
C15_WeeklyFromDayOne ==
    EnergyReturned =>
        /\ Len(PredRows(res.ret.rows)) = res.horizon_weeks
        /\ \A k \in 1..Len(PredRows(res.ret.rows)) :
               PredRows(res.ret.rows)[k].date =
                   LastObservedDate(res.ret.rows) + 7 * (k - 1) + 1

(***************************************************************************)
(* Claims about the fit and the band of forecast_weight_realistic          *)
(***************************************************************************)
\* the weeks of the history since its first date, and its weights
HistoryT == [i \in 1..Len(History) |-> RNorm(History[i].date - History[1].date, 7)]

HistoryY == [i \in 1..Len(History) |-> History[i].w]

\* min(len(history), max(3, recent_weeks)) for the call made
RecentCount == Min2(Len(History), Max2(3, res.recent_weeks))

\* the weighted line through the last RecentCount observations
RecentFit ==
    WeightedFit(LastN(HistoryT, RecentCount), LastN(HistoryY, RecentCount),
                res.ret.weights)

\* C16: the weighted-linear fit of forecast_weight_realistic uses exactly the
\* last min(len(history), max(3, recent_weeks)) observations, with positive
\* weights that increase toward the most recent observation and sum to 1.
C16_RecentWindow ==
    (RealisticCalled /\ History # <<>>) =>
        /\ Len(res.ret.weights) = RecentCount
        /\ \A i \in 1..RecentCount : RLt(R(0), res.ret.weights[i])
        /\ \A i \in 1..(RecentCount - 1) : RLt(res.ret.weights[i], res.ret.weights[i + 1])
        /\ REq(RSum(res.ret.weights), R(1))
        /\ IF RecentFit.singular THEN res.ret.raised
           ELSE REq(res.ret.slope_est, ToFP2(RecentFit.b1))

\* a history of 6 weeks of which the fit uses 3, with another slope than the
\* 6 weeks have under the same kind of weights
C16_Witness ==
    /\ RealisticCalled /\ Len(History) = 6 /\ RecentCount = 3 /\ ~res.ret.raised
    /\ ~REq(res.ret.slope_est,
            ToFP2(WeightedFit(HistoryT, HistoryY, RecencyWeights(6)).b1))

C16_WitnessAll ==
    RealisticCalled /\ Len(History) = 6 /\ RecentCount = 6 /\ ~res.ret.raised

RealisticReturned == RealisticCalled /\ ~res.ret.raised

\* upper - lower of the k-th predicted row
BandWidth(rows, k) == RSub(PredRows(rows)[k].upper, PredRows(rows)[k].lower)

\* 1.96 x se x (1 + 0.1 k)
HalfWidth(se, k) == RMul(RMul(Z196, se), RNorm(10 + k, 10))

\* C17: the band of the k-th predicted point of forecast_weight_realistic is
\* symmetric about the prediction with half-width 1.96 x se x (1 + 0.1 k), so
\* its width never shrinks along the horizon and strictly grows where se > 0.
C17_BandWidens ==
    RealisticReturned =>
        /\ \A k \in 1..Len(PredRows(res.ret.rows)) :
              /\ REq(RSub(PredRows(res.ret.rows)[k].value, PredRows(res.ret.rows)[k].lower),
                     HalfWidth(res.ret.se, k))
              /\ REq(RSub(PredRows(res.ret.rows)[k].upper, PredRows(res.ret.rows)[k].value),
                     HalfWidth(res.ret.se, k))
        /\ \A k \in 2..Len(PredRows(res.ret.rows)) :
              /\ RLe(BandWidth(res.ret.rows, k - 1), BandWidth(res.ret.rows, k))
              /\ RLt(R(0), res.ret.se) =>
                     RLt(BandWidth(res.ret.rows, k - 1), BandWidth(res.ret.rows, k))

C17_Witness ==
    /\ RealisticReturned /\ Len(PredRows(res.ret.rows)) = 8
    /\ RLt(R(0), res.ret.se)
    /\ RLt(BandWidth(res.ret.rows, 1), BandWidth(res.ret.rows, 8))

\* a history on one line: se = 0 and a band of width 0 throughout
C17_WitnessExact ==
    /\ RealisticReturned /\ Len(PredRows(res.ret.rows)) = 8
    /\ REq(res.ret.se, R(0))
    /\ REq(BandWidth(res.ret.rows, 8), R(0))

(***************************************************************************)
(* estimate_tdee_msj: a str is the sequence of its characters              *)
(***************************************************************************)
UpperCase ==
    <<"A", "B", "C", "D", "E", "F", "G", "H", "I", "J", "K", "L", "M",
      "N", "O", "P", "Q", "R", "S", "T", "U", "V", "W", "X", "Y", "Z">>

LowerCase ==
    <<"a", "b", "c", "d", "e", "f", "g", "h", "i", "j", "k", "l", "m",
      "n", "o", "p", "q", "r", "s", "t", "u", "v", "w", "x", "y", "z">>

\* a variant of str.lower that leaves the str as it is
StrLowerNone(s) == s

\* str.lower
StrLower(s) ==
    [i \in 1..Len(s) |->
        IF \E j \in 1..26 : UpperCase[j] = s[i]
        THEN LowerCase[CHOOSE j \in 1..26 : UpperCase[j] = s[i]]
        ELSE s[i]]

\* line 259: the dict of the multipliers
ActivityMult ==
    {[key |-> <<"s", "e", "d", "e", "n", "t", "a", "r", "y">>, mult |-> RNorm(12, 10)],
     [key |-> <<"l", "i", "g", "h", "t">>, mult |-> RNorm(1375, 1000)],
     [key |-> <<"m", "o", "d", "e", "r", "a", "t", "e">>, mult |-> RNorm(155, 100)],
     [key |-> <<"a", "c", "t", "i", "v", "e">>, mult |-> RNorm(1725, 1000)],
     [key |-> <<"v", "e", "r", "y", " ", "a", "c", "t", "i", "v", "e">>, mult |-> RNorm(19, 10)]}

\* dict.get(key, default) of line 259
DictGet(key, default) ==
    IF \E e \in ActivityMult : e.key = key
    THEN (CHOOSE e \in ActivityMult : e.key = key).mult
    ELSE default

\* lines 257-258: bmr for the lowered sex
Bmr(sex, age, height_cm, weight_kg) ==
    RAdd(RSub(RAdd(RMul(R(10), weight_kg), RMul(RNorm(625, 100), height_cm)),
              R(5 * age)),
         IF sex # <<>> /\ sex[1] = "m" THEN R(5) ELSE R(-161))

\* lines 256-260
EstimateTdeeMsj(sex, age, height_cm, weight_kg, activity) ==
    RMul(Bmr(StrLower(sex), age, height_cm, weight_kg),
         DictGet(StrLower(activity), RNorm(155, 100)))

SexArgs ==
    {<<"m", "a", "l", "e">>, <<"M", "a", "l", "e">>, <<"M">>,
     <<"f", "e", "m", "a", "l", "e">>, <<"F", "e", "m", "a", "l", "e">>,
     <<"o", "t", "h", "e", "r">>, <<>>}

ActivityArgs ==
    {<<"s", "e", "d", "e", "n", "t", "a", "r", "y">>,
     <<"L", "i", "g", "h", "t">>,
     <<"M", "O", "D", "E", "R", "A", "T", "E">>,
     <<"a", "c", "t", "i", "v", "e">>,
     <<"V", "e", "r", "y", " ", "A", "c", "t", "i", "v", "e">>,
     <<"v", "e", "r", "y", "a", "c", "t", "i", "v", "e">>,
     <<"a", "t", "h", "l", "e", "t", "e">>,
     <<>>}

\* one call of estimate_tdee_msj(sex, age, height_cm, weight_kg, activity)
EstimateTdeeMsjCall ==
    \E sex \in SexArgs, age \in {25, 60}, height_cm \in {R(170), RNorm(1755, 10)},
       weight_kg \in {R(70), RNorm(815, 10)}, activity \in ActivityArgs :
        /\ res = NoCall
        /\ res' = [op |-> "estimate_tdee_msj", sex |-> sex, age |-> age,
                   height_cm |-> height_cm, weight_kg |-> weight_kg,
                   activity |-> activity,
                   ret |-> EstimateTdeeMsj(sex, age, height_cm, weight_kg, activity)]
        /\ UNCHANGED <<series, bw, csv, table>>

InitTdee ==
    /\ series = <<>>
    /\ bw = <<>>
    /\ res = NoCall
    /\ csv = <<>>
    /\ table = <<>>

NextTdee == EstimateTdeeMsjCall

SpecTdee == InitTdee /\ [][NextTdee]_vars

(***************************************************************************)
(* Claims about estimate_tdee_msj                                          *)
(***************************************************************************)
TdeeCalled == res.op = "estimate_tdee_msj"

\* the two strs are the same letter for letter, whatever the case
SameIgnoringCase(a, b) ==
    /\ Len(a) = Len(b)
    /\ \A i \in 1..Len(a) :
          \/ a[i] = b[i]
          \/ \E j \in 1..26 : {a[i], b[i]} = {UpperCase[j], LowerCase[j]}

\* the categories and the multipliers x 1000 of the claim
Categories ==
    {<<"sedentary", <<"s", "e", "d", "e", "n", "t", "a", "r", "y">>, 1200>>,
     <<"light", <<"l", "i", "g", "h", "t">>, 1375>>,
     <<"moderate", <<"m", "o", "d", "e", "r", "a", "t", "e">>, 1550>>,
     <<"active", <<"a", "c", "t", "i", "v", "e">>, 1725>>,
     <<"very active", <<"v", "e", "r", "y", " ", "a", "c", "t", "i", "v", "e">>, 1900>>}

\* m x 1000 for the activity of the call
CategoryMult ==
    IF \E c \in Categories : SameIgnoringCase(res.activity, c[2])
    THEN (CHOOSE c \in Categories : SameIgnoringCase(res.activity, c[2]))[3]
    ELSE 1550

\* s for the sex of the call
SexOffset ==
    IF res.sex # <<>> /\ res.sex[1] \in {"m", "M"} THEN 5 ELSE -161

\* C18: estimate_tdee_msj returns
\* (10*weight_kg + 6.25*height_cm - 5*age + s) x m, with s = 5 when sex starts
\* with 'm' in any case and -161 otherwise, and m the table value of the
\* activity matched case-insensitively, 1.55 for a category not in the table.
C18_TdeeFormula ==
    TdeeCalled =>
        REq(RMul(res.ret, R(4000)),
            RMul(RAdd(RAdd(RMul(R(40), res.weight_kg), RMul(R(25), res.height_cm)),
                      R(4 * (SexOffset - 5 * res.age))),
                 R(CategoryMult)))

\* a call with sex "Male" and activity "Very Active", answered with s = 5 and
\* m = 1.9
C18_Witness ==
    /\ TdeeCalled
    /\ res.sex = <<"M", "a", "l", "e">>
    /\ res.activity = <<"V", "e", "r", "y", " ", "A", "c", "t", "i", "v", "e">>
    /\ res.age = 25 /\ REq(res.height_cm, R(170)) /\ REq(res.weight_kg, R(70))
    /\ REq(res.ret, RNorm(312075, 100))

\* a category not in the table and a sex not starting with m
C18_WitnessDefault ==
    /\ TdeeCalled
    /\ res.sex = <<"o", "t", "h", "e", "r">>
    /\ res.activity = <<"v", "e", "r", "y", "a", "c", "t", "i", "v", "e">>
    /\ res.age = 60 /\ REq(res.height_cm, R(170)) /\ REq(res.weight_kg, R(70))
    /\ REq(res.ret, RNorm(2017325, 1000))

(***************************************************************************)
(* The stored body-weight series: data/bodyweight.csv and the bodyweight   *)
(* table.  A timestamp of a store counts half days, the even ones being    *)
(* the midnights; a row is [date, w], w being body_weight_lbs.             *)
(***************************************************************************)
\* the days a store has rows for are 0..MaxDay
MaxDay == 1

\* .dt.normalize(), Timestamp.normalize(): the midnight of the day
Normalize(ts) == IF ts = NaT THEN NaT ELSE 2 * (ts \div 2)

\* utils.py lines 85-94: read_csv, to_datetime(errors="coerce") with the
\* unparseable dates NaT, normalize, dropna(subset=["date"]), sort_values
ReadBodyweight(file) ==
    SortByDate(SelectSeq([i \in 1..Len(file) |-> [file[i] EXCEPT !.date = Normalize(@)]],
                         LAMBDA r : r.date # NaT))

\* utils.py lines 96-100: normalize, sort_values, to_csv
WriteBodyweight(df) ==
    SortByDate([i \in 1..Len(df) |-> [df[i] EXCEPT !.date = Normalize(@)]])

\* a variant of upsert_weight_entry that keeps the rows of the date it writes
UpsertWeightEntryAppend(file, weight_lbs, when, now) ==
    WriteBodyweight(SortByDate(
        ReadBodyweight(file) \o
        <<[date |-> Normalize(IF when = <<>> THEN now ELSE when[1]), w |-> weight_lbs]>>))

\* utils.py lines 102-113, when being <<>> for None and now the clock's
\* Timestamp.today(); the file after the call
UpsertWeightEntry(file, weight_lbs, when, now) ==
    WriteBodyweight(SortByDate(
        SelectSeq(ReadBodyweight(file),
                  LAMBDA r : r.date # Normalize(IF when = <<>> THEN now ELSE when[1])) \o
        <<[date |-> Normalize(IF when = <<>> THEN now ELSE when[1]), w |-> weight_lbs]>>))

\* 3 Progress.py lines 35-43, the statements of read_bodyweight
ReadBw(file) == ReadBodyweight(file)

\* 3 Progress.py lines 47-51, the statements of write_bodyweight
WriteBw(df) == WriteBodyweight(df)

\* 3 Progress.py lines 53-65, the_date being a day; the file after the call
UpsertWeightForDate(file, the_date, weight_lbs) ==
    WriteBw(SortByDate(
        SelectSeq(ReadBw(file), LAMBDA r : r.date \div 2 # Normalize(2 * the_date) \div 2) \o
        <<[date |-> Normalize(2 * the_date), w |-> weight_lbs]>>))

\* date[:10] of an ISO timestamp str is its date; a str that is no date
\* stays none
First10(date) == IF date = NaT THEN NaT ELSE 2 * (date \div 2)

\* table.upsert(row, on_conflict="date") on a table whose date column is
\* unique: the row of that date is updated in the columns given, or the row
\* is inserted
Upsert(rows, row) ==
    IF \E i \in 1..Len(rows) : rows[i].date = row.date
    THEN [i \in 1..Len(rows) |->
             IF rows[i].date = row.date THEN [rows[i] EXCEPT !.w = row.w] ELSE rows[i]]
    ELSE Append(rows, row)

\* database.py lines 112-125: the table after the call, and whether the
\* call raised (the database refusing a date it cannot read)
AddWeight(rows, date, body_weight_lbs) ==
    IF First10(date) = NaT
    THEN [raised |-> TRUE, rows |-> rows]
    ELSE [raised |-> FALSE,
          rows |-> Upsert(rows, [date |-> First10(date), w |-> body_weight_lbs])]

\* database.py lines 95-110: select, order("date"), date[:10]
GetWeights(rows) ==
    SortByDate([i \in 1..Len(rows) |-> [rows[i] EXCEPT !.date = First10(@)]])

\* at most one row for a date
OnePerDate(rows) ==
    \A i, j \in 1..Len(rows) :
        (i < j /\ rows[i].date # NaT /\ rows[j].date # NaT) =>
            rows[i].date \div 2 # rows[j].date \div 2

\* the files a first call may find: rows in any order, with a time of day or
\* with a date that cannot be read
InitialFiles ==
    {f \in UNION {[1..n -> {[date |-> t, w |-> R(180)] : t \in {NaT} \cup 0..(2 * MaxDay + 1)}] :
                  n \in 0..2} : OnePerDate(f)}

\* the tables a first call may find: one row a date, in any order
InitialTables ==
    {t \in InitialFiles : \A i \in 1..Len(t) : t[i].date # NaT /\ t[i].date % 2 = 0}

WeightArgs == {R(180), RNorm(1815, 10)}

\* one call of upsert_weight_entry(BW_PATH, weight_lbs, when)
UpsertWeightEntryCall ==
    \E weight_lbs \in WeightArgs,
       when \in {<<>>} \cup {<<t>> : t \in 0..(2 * MaxDay + 1)} :
      \E now \in IF when = <<>> THEN 0..(2 * MaxDay + 1) ELSE {2 * MaxDay + 1} :
        /\ csv' = UpsertWeightEntry(csv, weight_lbs, when, now)
        /\ res' = [op |-> "upsert_weight_entry", weight_lbs |-> weight_lbs,
                   date |-> IF when = <<>> THEN now ELSE when[1],
                   before |-> csv, raised |-> FALSE]
        /\ UNCHANGED <<series, bw, table>>

\* one call of upsert_weight_for_date(the_date, weight_lbs)
UpsertWeightForDateCall ==
    \E weight_lbs \in WeightArgs, the_date \in 0..MaxDay :
        /\ csv' = UpsertWeightForDate(csv, the_date, weight_lbs)
        /\ res' = [op |-> "upsert_weight_for_date", weight_lbs |-> weight_lbs,
                   date |-> 2 * the_date, before |-> csv, raised |-> FALSE]
        /\ UNCHANGED <<series, bw, table>>

\* one call of add_weight({"date": date, "body_weight_lbs": body_weight_lbs})
AddWeightCall ==
    \E body_weight_lbs \in WeightArgs, date \in {NaT} \cup 0..(2 * MaxDay + 1) :
        /\ table' = AddWeight(table, date, body_weight_lbs).rows
        /\ res' = [op |-> "add_weight", weight_lbs |-> body_weight_lbs,
                   date |-> date, before |-> table,
                   raised |-> AddWeight(table, date, body_weight_lbs).raised]
        /\ UNCHANGED <<series, bw, csv>>

InitStore ==
    /\ series = <<>>
    /\ bw = <<>>
    /\ res = NoCall
    /\ csv \in InitialFiles
    /\ table \in InitialTables

NextStore ==
    \/ UpsertWeightEntryCall
    \/ UpsertWeightForDateCall
    \/ AddWeightCall

SpecStore == InitStore /\ [][NextStore]_vars

(***************************************************************************)
(* Claims about the stored body-weight series                              *)
(***************************************************************************)
StoreOps == {"upsert_weight_entry", "upsert_weight_for_date", "add_weight"}

\* what reads back from the store the last call wrote, and from that store
\* as the call found it
ReadBack == IF res.op = "add_weight" THEN GetWeights(table) ELSE ReadBodyweight(csv)

ReadBefore ==
    IF res.op = "add_weight" THEN GetWeights(res.before) ELSE ReadBodyweight(res.before)

\* the weights the rows of a day hold, in the order of the rows
WeightsOn(rows, day) ==
    [i \in 1..Len(SelectSeq(rows, LAMBDA r : r.date \div 2 = day)) |->
        SelectSeq(rows, LAMBDA r : r.date \div 2 = day)[i].w]

\* C19: from a store with at most one row per date, after any sequence of
\* upserts the stored series reads back sorted ascending with one row per
\* date, the row of the date last written holds the weight written, and the
\* rows of the other dates are as they were before the call.
C19_UpsertKeepsLast ==
    /\ \A i \in 1..(Len(ReadBodyweight(csv)) - 1) :
          ReadBodyweight(csv)[i].date < ReadBodyweight(csv)[i + 1].date
    /\ \A i \in 1..(Len(GetWeights(table)) - 1) :
          GetWeights(table)[i].date < GetWeights(table)[i + 1].date
    /\ (res.op \in StoreOps /\ ~res.raised) =>
          \A day \in 0..MaxDay :
              IF day = res.date \div 2
              THEN WeightsOn(ReadBack, day) = <<res.weight_lbs>>
              ELSE WeightsOn(ReadBack, day) = WeightsOn(ReadBefore, day)
    /\ (res.op \in StoreOps /\ res.raised) => table = res.before

\* a weight written over another weight of the same date, next to a row of
\* another date
C19_Witness ==
    /\ res.op = "upsert_weight_entry"
    /\ WeightsOn(ReadBefore, res.date \div 2) = <<R(180)>>
    /\ WeightsOn(ReadBack, res.date \div 2) = <<RNorm(1815, 10)>>
    /\ Len(ReadBack) = 2

C19_WitnessPage ==
    /\ res.op = "upsert_weight_for_date"
    /\ WeightsOn(ReadBefore, res.date \div 2) = <<R(180)>>
    /\ WeightsOn(ReadBack, res.date \div 2) = <<RNorm(1815, 10)>>
    /\ Len(ReadBack) = 2

C19_WitnessTable ==
    /\ res.op = "add_weight"
    /\ WeightsOn(ReadBefore, res.date \div 2) = <<R(180)>>
    /\ WeightsOn(ReadBack, res.date \div 2) = <<RNorm(1815, 10)>>
    /\ Len(ReadBack) = 2 /\ table[1].date > table[2].date

(***************************************************************************)
(* Claims about the range of the predictions of forecast_series            *)
(***************************************************************************)
\* 0.5 * (max - min) over the series the estimators see
HalfRange(values) == RMul(RNorm(1, 2), RSub(SeqMax(values), SeqMin(values)))

\* C27: every prediction of forecast_series on a non-empty input lies in
\* [min - 0.5*(max - min), max + 0.5*(max - min)], min and max being taken
\* over the series after the outlier filter and the smoothing, whichever
\* estimator produced it; a constant series is forecast as that constant.
C27_PredictionsInRange ==
    SeriesReturned =>
        /\ \A k \in 1..Len(res.ret.preds) :
              /\ RLe(RSub(SeqMin(res.ret.smoothed), HalfRange(res.ret.smoothed)),
                     res.ret.preds[k])
              /\ RLe(res.ret.preds[k],
                     RAdd(SeqMax(res.ret.smoothed), HalfRange(res.ret.smoothed)))
        /\ (\A i \in 1..Len(series) : series[i] = series[1]) =>
              \A k \in 1..Len(res.ret.preds) : REq(res.ret.preds[k], series[1])

\* a prediction held at the upper end of the range, from each estimator
C27_Witness ==
    /\ SeriesReturned /\ res.ret.used = "linear" /\ Len(res.ret.preds) = 2
    /\ REq(res.ret.preds[2], RAdd(SeqMax(res.ret.smoothed), HalfRange(res.ret.smoothed)))
    /\ RLt(R(0), HalfRange(res.ret.smoothed))

C27_WitnessHolt ==
    /\ SeriesReturned /\ res.ret.used = "holt" /\ Len(res.ret.preds) = 2
    /\ REq(res.ret.preds[2], RSub(SeqMin(res.ret.smoothed), HalfRange(res.ret.smoothed)))
    /\ RLt(R(0), HalfRange(res.ret.smoothed))

C27_WitnessConstant ==
    /\ SeriesReturned /\ res.ret.used = "holt" /\ Len(res.ret.preds) = 2
    /\ res.holt.trend # 0
    /\ \A i \in 1..Len(series) : series[i] = series[1]

(***************************************************************************)
(* Claims about the frames of the weight-trend forecasts                   *)
(***************************************************************************)
\* a call of one of the two weight-trend forecasts on a frame whose rows all
\* have a date and a weight, on at least two distinct dates
TrendCalled ==
    /\ res.op \in {"forecast_weight_realistic", "forecast_weight_confidence"}
    /\ bw = DropNa(bw, TRUE)
    /\ \E i, j \in 1..Len(bw) : bw[i].date # bw[j].date

\* the observed points in ascending date order as actual rows, then
\* horizon_weeks pred rows dated 7 * k days after the last observed date
ActualThenPred(rows) ==
    /\ Len(rows) = Len(History) + res.horizon_weeks
    /\ \A i \in 1..Len(History) :
          /\ rows[i].kind = "actual"
          /\ rows[i].date = History[i].date
          /\ REq(rows[i].value, History[i].w)
          /\ i > 1 => rows[i - 1].date <= rows[i].date
    /\ \A k \in 1..res.horizon_weeks :
          /\ rows[Len(History) + k].kind = "pred"
          /\ rows[Len(History) + k].date = History[Len(History)].date + 7 * k

\* C28: for a history with at least two distinct dates and a horizon h >= 0,
\* forecast_weight_realistic and forecast_weight_confidence return every
\* observed point in ascending date order as kind = actual, followed by
\* exactly h rows of kind = pred dated 7*k days after the last observed date;
\* no actual row follows a pred row.
C28_ActualThenPred ==
    TrendCalled => ~res.ret.raised /\ ActualThenPred(res.ret.rows)

\* the part of C28 that holds: the frame of a call that returns
C28_WhenReturned ==
    (TrendCalled /\ ~res.ret.raised) => ActualThenPred(res.ret.rows)

\* the calls on such a history that raise: a horizon of 0 weeks in
\* forecast_weight_confidence, a last date for which np.arange overshoots in
\* forecast_weight_realistic
C28_RaisedOnlyWhere ==
    (TrendCalled /\ res.ret.raised) =>
        IF res.op = "forecast_weight_confidence" THEN res.horizon_weeks = 0
        ELSE <<History[Len(History)].date - History[1].date, res.horizon_weeks>>
                 \in ArangeOvershoot

(***************************************************************************)
(* Claims about the direction of forecast_weight_energy                    *)
(***************************************************************************)
\* C29: in forecast_weight_energy the projection follows the sign of the last
\* smoothed balance: with a negative balance the predicted weights fall
\* strictly, from below the current weight; with a positive one they rise
\* strictly, from above it; with a zero balance they all equal the current
\* weight (the current weight being positive and max_abs_rate_pct > 0).
C29_EnergyDirection ==
    (EnergyReturned /\ RLt(R(0), LastObserved(res.ret.rows))) =>
        \A k \in 1..Len(PredRows(res.ret.rows)) :
            CASE RLt(LastSmoothedBalance, R(0)) ->
                     RLt(WeeklyStep(res.ret.rows, k), R(0))
              [] RLt(R(0), LastSmoothedBalance) ->
                     RLt(R(0), WeeklyStep(res.ret.rows, k))
              [] OTHER ->
                     REq(PredRows(res.ret.rows)[k].value, LastObserved(res.ret.rows))

C29_Witness ==
    /\ EnergyReturned /\ Len(PredRows(res.ret.rows)) = 8
    /\ RLt(LastSmoothedBalance, R(0))
    /\ RLt(PredRows(res.ret.rows)[8].value, PredRows(res.ret.rows)[1].value)

C29_WitnessSurplus ==
    /\ EnergyReturned /\ Len(PredRows(res.ret.rows)) = 8
    /\ RLt(R(0), LastSmoothedBalance)
    /\ RLt(LastObserved(res.ret.rows), PredRows(res.ret.rows)[1].value)

C29_WitnessZero ==
    /\ EnergyReturned /\ Len(PredRows(res.ret.rows)) = 8
    /\ REq(LastSmoothedBalance, R(0))
    /\ REq(PredRows(res.ret.rows)[8].value, LastObserved(res.ret.rows))

(***************************************************************************)
(* Claims about the frame of forecast_weight_multifeature                  *)
(***************************************************************************)
MultifeatureReturned ==
    res.op = "forecast_weight_multifeature" /\ ~res.ret.raised /\ res.ret.rows # <<>>

\* the actual rows are in strictly increasing date order and the k-th
\* predicted row is dated 7 * k days after the latest observed date
WeeklyOrder(rows) ==
    /\ \A i \in 2..Len(ActualRows(rows)) :
          ActualRows(rows)[i - 1].date < ActualRows(rows)[i].date
    /\ \A k \in 1..Len(PredRows(rows)) :
          PredRows(rows)[k].date = History[Len(History)].date + 7 * k

\* C22: in the output of forecast_weight_multifeature the actual rows are in
\* strictly increasing date order, one per ISO week, and the predicted rows
\* follow at 7-day steps from 7 days after the latest observed week's date,
\* also for a history that spans the ISO weeks 9 and 10 of a year.
C22_WeeklyOrder ==
    MultifeatureReturned =>
        /\ Len(ActualRows(res.ret.rows)) =
               Cardinality({IsoWeek(History[i].date) : i \in 1..Len(History)})
        /\ WeeklyOrder(res.ret.rows)

\* the part of C22 that holds: one actual row per ISO week, and the order of
\* the claim for a history whose week numbers all have as many digits
C22_OrderWithinDigits ==
    MultifeatureReturned =>
        /\ Len(ActualRows(res.ret.rows)) =
               Cardinality({IsoWeek(History[i].date) : i \in 1..Len(History)})
        /\ (\A i, j \in 1..Len(History) :
               (IsoWeek(History[i].date) < 10) = (IsoWeek(History[j].date) < 10))
           => WeeklyOrder(res.ret.rows)

(***************************************************************************)
(* Claims about forecast_weight_realistic with a target rate               *)
(***************************************************************************)
\* the rows of a frame that have a date and a weight, by date
Observed(frame) == SortByDate(DropNa(frame, TRUE))

TwoDates(d) == \E i, j \in 1..Len(d) : d[i].date # d[j].date

\* a call with a target rate that is given and not zero, on a history with at
\* least two distinct dates
TargetCalled ==
    /\ RealisticCalled /\ ~res.target.none /\ AboveEps(res.target.pct)
    /\ TwoDates(History)

\* what a call predicts: whether it raised, and the dates and values of its
\* predicted rows
Predicted(ret) ==
    [raised |-> ret.raised,
     preds |-> [k \in 1..Len(PredRows(ret.rows)) |->
                   <<PredRows(ret.rows)[k].date, PredRows(ret.rows)[k].value>>]]

\* C26: with a target rate given and not zero, the predicted values of
\* forecast_weight_realistic depend only on the last observed weight and
\* date, the target rate, max_abs_rate_pct and the horizon: two histories
\* with at least two distinct dates that agree on their last observation
\* yield identical predicted values and dates.
C26_TargetOnly ==
    TargetCalled =>
        \A other \in Frames :
            (/\ TwoDates(Observed(other))
             /\ Observed(other)[Len(Observed(other))] = History[Len(History)])
            => Predicted(ForecastWeightRealistic(other, res.horizon_weeks, res.target,
                                                 res.recent_weeks, res.max_abs_rate_pct))
               = Predicted(res.ret)

\* the part of C26 that holds: a call that returns predicts, k weeks after
\* the last observed date, the last observed weight plus k times the target
\* rate of it held within max_abs_rate_pct
C26_TargetWhenReturned ==
    (TargetCalled /\ ~res.ret.raised) =>
        /\ Len(PredRows(res.ret.rows)) = res.horizon_weeks
        /\ \A k \in 1..Len(PredRows(res.ret.rows)) :
              /\ PredRows(res.ret.rows)[k].date = History[Len(History)].date + 7 * k
              /\ REq(PredRows(res.ret.rows)[k].value,
                     RAdd(History[Len(History)].w,
                          RMul(R(k),
                               RMul(RDiv(History[Len(History)].w, R(100)),
                                    RClip(res.target.pct, RNeg(res.max_abs_rate_pct),
                                          res.max_abs_rate_pct)))))

(***************************************************************************)
(* daily_kcal_vs_tdee: a meal is [date, calories], date being a timestamp  *)
(* in half days or NaT where it cannot be read                             *)
(***************************************************************************)
\* the ascending sequence of a set of timestamps (groupby sorts its keys)
RECURSIVE Ascending(_)
Ascending(S) ==
    IF S = {} THEN <<>>
    ELSE <<CHOOSE m \in S : \A o \in S : m <= o>> \o
         Ascending(S \ {CHOOSE m \in S : \A o \in S : m <= o})

\* a variant of the sum of a date that takes the date's last meal only
IntakeOnLast(d, date) ==
    SelectSeq(d, LAMBDA r : r.date = date)[Len(SelectSeq(d, LAMBDA r : r.date = date))].calories

\* line 270: the sum of the calories of one date of d
IntakeOn(d, date) ==
    RSum([i \in 1..Len(SelectSeq(d, LAMBDA r : r.date = date)) |->
             SelectSeq(d, LAMBDA r : r.date = date)[i].calories])

\* lines 270-274 on d, the meals with their dates cut to the day: one row a
\* date (groupby leaves out the missing dates), by date
DailyRows(d, tdee_kcal) ==
    [j \in 1..Cardinality({d[i].date : i \in 1..Len(d)} \ {NaT}) |->
        [date |-> Ascending({d[i].date : i \in 1..Len(d)} \ {NaT})[j],
         intake_kcal |-> IntakeOn(d, Ascending({d[i].date : i \in 1..Len(d)} \ {NaT})[j]),
         tdee_kcal |-> tdee_kcal,
         balance_kcal |->
             RSub(IntakeOn(d, Ascending({d[i].date : i \in 1..Len(d)} \ {NaT})[j]),
                  tdee_kcal)]]

\* lines 265-274: daily_kcal_vs_tdee(meals_df, tdee_kcal)
DailyKcalVsTdee(meals_df, tdee_kcal) ==
    IF meals_df = <<>> THEN <<>>
    ELSE DailyRows([i \in 1..Len(meals_df) |->
                       [meals_df[i] EXCEPT !.date = Normalize(@)]], tdee_kcal)

\* the most meals of a log
MaxMeals == 3

MealLogs ==
    UNION {[1..n -> {[date |-> t, calories |-> R(c)] :
                        t \in {NaT, 0, 1, 2, 5}, c \in {300, 500}}] : n \in 0..MaxMeals}

\* one call of daily_kcal_vs_tdee(meals_df, tdee_kcal)
DailyKcalVsTdeeCall ==
    \E meals_df \in MealLogs, tdee_kcal \in {R(400), RNorm(20173, 10)} :
        /\ res = NoCall
        /\ res' = [op |-> "daily_kcal_vs_tdee", meals_df |-> meals_df,
                   tdee_kcal |-> tdee_kcal,
                   ret |-> DailyKcalVsTdee(meals_df, tdee_kcal)]
        /\ UNCHANGED <<series, bw, csv, table>>

(***************************************************************************)
(* Calls of the functions of the logs                                      *)
(***************************************************************************)
(***************************************************************************)
(* weekly_best_1rm: a set of the workout log is                            *)
(* [exercise, year, week, weight_kg, reps]                                 *)
(***************************************************************************)
\* a variant of the estimate that is the weight lifted
Estimate1RMWeight(row) == row.weight_kg

\* analyze.py lines 15-16: estimate_1rm_row
Estimate1RMRow(row) == RMul(row.weight_kg, RAdd(R(1), RNorm(row.reps, 30)))

\* the place of a (year, week) group among the groups: groupby and
\* sort_values(["year", "week"]) order by year, then by week, a week being
\* at most 53
YearWeekRank(row) == 54 * row.year + row.week

\* analyze.py lines 23-27: one row a (year, week) of dfe, by year and week
BestRows(dfe) ==
    [j \in 1..Cardinality({YearWeekRank(dfe[i]) : i \in 1..Len(dfe)}) |->
        [year |-> Ascending({YearWeekRank(dfe[i]) : i \in 1..Len(dfe)})[j] \div 54,
         week |-> Ascending({YearWeekRank(dfe[i]) : i \in 1..Len(dfe)})[j] % 54,
         best_1rm |->
             SeqMax([i \in 1..Len(SelectSeq(dfe, LAMBDA r : YearWeekRank(r) =
                         Ascending({YearWeekRank(dfe[n]) : n \in 1..Len(dfe)})[j])) |->
                        Estimate1RMRow(SelectSeq(dfe, LAMBDA r : YearWeekRank(r) =
                            Ascending({YearWeekRank(dfe[n]) : n \in 1..Len(dfe)})[j])[i])])]]

\* analyze.py lines 19-28: weekly_best_1rm(df, exercise)
WeeklyBest1RM(df, exercise) ==
    IF SelectSeq(df, LAMBDA r : r.exercise = exercise) = <<>> THEN <<>>
    ELSE BestRows(SelectSeq(df, LAMBDA r : r.exercise = exercise))

\* the most sets of a workout log
MaxSets == 2

WorkoutLogs ==
    UNION {[1..n -> {[exercise |-> e, year |-> yw[1], week |-> yw[2],
                      weight_kg |-> R(wr[1]), reps |-> wr[2]] :
                        e \in {"squat", "bench"},
                        yw \in {<<2023, 52>>, <<2024, 9>>, <<2024, 10>>},
                        wr \in {<<100, 5>>, <<110, 1>>, <<60, 10>>}}] : n \in 0..MaxSets}

\* one call of weekly_best_1rm(df, exercise)
WeeklyBest1RMCall ==
    \E df \in WorkoutLogs, exercise \in {"squat", "deadlift"} :
        /\ res = NoCall
        /\ res' = [op |-> "weekly_best_1rm", df |-> df, exercise |-> exercise,
                   ret |-> WeeklyBest1RM(df, exercise)]
        /\ UNCHANGED <<series, bw, csv, table>>

(***************************************************************************)
(* The strength forecast of GET /api/workouts/forecast and of the Workouts *)
(* page: a set is [exercise, date, weight_kg], date being a day, day 0 a   *)
(* Monday                                                                  *)
(***************************************************************************)
\* pd.Grouper(key="date", freq="W-MON"): the Monday that ends the week of a
\* date
WeekEnd(date) == 7 * ((date + 6) \div 7)

\* main.py lines 220-221, 1 Workouts.py lines 113-114: the top weight of
\* each week that has one, by week
WeeklyTop(hist) ==
    [j \in 1..Cardinality({WeekEnd(hist[i].date) :
                              i \in {n \in 1..Len(hist) : ~IsNaN(hist[n].weight_kg)}}) |->
        [date |-> Ascending({WeekEnd(hist[i].date) :
                     i \in {n \in 1..Len(hist) : ~IsNaN(hist[n].weight_kg)}})[j],
         top |-> SeqMax([i \in 1..Len(SelectSeq(hist, LAMBDA r :
                            ~IsNaN(r.weight_kg) /\ WeekEnd(r.date) =
                            Ascending({WeekEnd(hist[m].date) :
                                m \in {n \in 1..Len(hist) : ~IsNaN(hist[n].weight_kg)}})[j])) |->
                     SelectSeq(hist, LAMBDA r :
                            ~IsNaN(r.weight_kg) /\ WeekEnd(r.date) =
                            Ascending({WeekEnd(hist[m].date) :
                                m \in {n \in 1..Len(hist) : ~IsNaN(hist[n].weight_kg)}})[j])[i].weight_kg])]]

\* a variant of the slope without the floor
SlopeAsFitted(b1) == b1

\* main.py line 229, 1 Workouts.py line 120: b1 = max(0.0, float(b1))
FlooredSlope(b1) == RMax(R(0), b1)

\* no chart on the page, {"actual": [], "forecast": []} from the endpoint
NoForecast == [error |-> FALSE, actual |-> <<>>, forecast |-> <<>>, b1 |-> NaN]

\* main.py lines 226-241, 1 Workouts.py lines 117-124: fit being the least
\* squares line of the tops over t = 0..len(wk)-1; b1 is the local of the
\* name
UpOnlyFit(wk, horizon, fit) ==
    [error |-> FALSE,
     actual |-> [i \in 1..Len(wk) |-> [date |-> wk[i].date, value |-> wk[i].top]],
     forecast |-> [k \in 1..Max2(horizon, 0) |->
                     [date |-> wk[Len(wk)].date + 7 * k,
                      value |-> RAdd(fit.a, RMul(FlooredSlope(fit.b), R(Len(wk) - 1 + k)))]],
     b1 |-> FlooredSlope(fit.b)]

\* main.py lines 220-241, 1 Workouts.py lines 113-124 on the sets of the
\* exercise
UpOnlyForecast(hist, horizon) ==
    IF Len(WeeklyTop(hist)) < 2 THEN NoForecast
    ELSE UpOnlyFit(WeeklyTop(hist), horizon,
                   LinFit([i \in 1..Len(WeeklyTop(hist)) |-> WeeklyTop(hist)[i].top]))

\* a variant of the except clause that lets the exception out: the answer is
\* an error
ExceptNone(try, empty) == IF try.raised THEN [empty EXCEPT !.error = TRUE] ELSE try.ret

\* main.py lines 242-246 and 508-512: except Exception: return {"actual":
\* [], "forecast": []}; try is the body, raised or ret
ExceptEmpty(try, empty) == IF try.raised THEN empty ELSE try.ret

\* main.py lines 208-241, the body of the try: db is what db_get_workouts
\* does, raise or return rows; a date that cannot be read makes
\* pd.to_datetime raise
WorkoutTry(db, exercise, horizon) ==
    IF db.raises THEN [raised |-> TRUE, ret |-> NoForecast]
    ELSE IF db.rows = <<>> THEN [raised |-> FALSE, ret |-> NoForecast]
    ELSE IF \E i \in 1..Len(db.rows) : db.rows[i].date = NaT
    THEN [raised |-> TRUE, ret |-> NoForecast]
    ELSE IF Len(SelectSeq(db.rows, LAMBDA r : r.exercise = exercise)) < 2
    THEN [raised |-> FALSE, ret |-> NoForecast]
    ELSE [raised |-> FALSE,
          ret |-> UpOnlyForecast(SelectSeq(db.rows, LAMBDA r : r.exercise = exercise),
                                 horizon)]

\* main.py lines 206-246
GetWorkoutForecast(db, exercise, horizon) ==
    ExceptEmpty(WorkoutTry(db, exercise, horizon), NoForecast)

\* 1 Workouts.py lines 107-124 on the frame of load_workouts
WorkoutsPageForecast(wdf, sel_ex, horizon) ==
    IF Len(SelectSeq(wdf, LAMBDA r : r.exercise = sel_ex /\ ~IsNaN(r.weight_kg))) < 2
    THEN NoForecast
    ELSE UpOnlyForecast(SelectSeq(wdf, LAMBDA r : r.exercise = sel_ex), horizon)

\* the most sets of a log of sessions
MaxSessions == 3

SessionLogs ==
    UNION {[1..n -> {[exercise |-> e, date |-> d, weight_kg |-> w] :
                        e \in {"squat"}, d \in {1, 8, 15}, w \in {R(100), R(110)}}
                    \cup {[exercise |-> "bench", date |-> 8, weight_kg |-> R(60)],
                          [exercise |-> "squat", date |-> 15, weight_kg |-> NaN],
                          [exercise |-> "squat", date |-> NaT, weight_kg |-> R(100)]}] :
               n \in 0..MaxSessions}

\* one request GET /api/workouts/forecast?exercise=squat&horizon=...
GetWorkoutForecastCall ==
    \E rows \in SessionLogs, raises \in BOOLEAN, horizon \in {-1, 0, 2} :
        /\ res = NoCall
        /\ raises => rows = <<>>
        /\ res' = [op |-> "get_workout_forecast", rows |-> rows, raises |-> raises,
                   exercise |-> "squat", horizon |-> horizon,
                   ret |-> GetWorkoutForecast([raises |-> raises, rows |-> rows],
                                              "squat", horizon)]
        /\ UNCHANGED <<series, bw, csv, table>>

\* one run of the Workouts page with the exercise squat selected, on a frame
\* of load_workouts, which has a date and a weight in every row
WorkoutsPageForecastCall ==
    \E rows \in SessionLogs, horizon \in {4} :
        /\ res = NoCall
        /\ \A i \in 1..Len(rows) : rows[i].date # NaT /\ ~IsNaN(rows[i].weight_kg)
        /\ res' = [op |-> "workouts_page_forecast", rows |-> rows, raises |-> FALSE,
                   exercise |-> "squat", horizon |-> horizon,
                   ret |-> WorkoutsPageForecast(rows, "squat", horizon)]
        /\ UNCHANGED <<series, bw, csv, table>>

(***************************************************************************)
(* GET /api/weight/forecast: the store holds rows (date, w) of bodyweight, *)
(* rows (date, calories) of meals and at most one profile                  *)
(***************************************************************************)
\* main.py line 456: sort_values("date"), the rows without a date last
SortNaLast(frame) ==
    SortByDate(SelectSeq(frame, LAMBDA r : r.date # NaT)) \o
    SelectSeq(frame, LAMBDA r : r.date = NaT)

EmptyAnswer == [error |-> FALSE, actual |-> <<>>, forecast |-> <<>>]

\* a row of the answer: the date written by the day, the kind left out
AnswerRow(r) == [date |-> r.date, value |-> r.value, lower |-> r.lower, upper |-> r.upper]

\* main.py lines 487-507 on what the engine returned
SplitByKind(out) ==
    IF out.raised THEN [raised |-> TRUE, ret |-> EmptyAnswer]
    ELSE [raised |-> FALSE,
          ret |-> [error |-> FALSE,
                   actual |-> [i \in 1..Len(SelectSeq(out.rows, LAMBDA r : r.kind = "actual")) |->
                                  AnswerRow(SelectSeq(out.rows, LAMBDA r : r.kind = "actual")[i])],
                   forecast |-> [i \in 1..Len(SelectSeq(out.rows, LAMBDA r : r.kind = "pred")) |->
                                  AnswerRow(SelectSeq(out.rows, LAMBDA r : r.kind = "pred")[i])]]]

\* main.py lines 472-483: the TDEE of the profile, 2000 without one; a
\* profile that lacks a key raises
ProfileTdee(prof, current_w) ==
    IF prof = <<>> THEN [raised |-> FALSE, tdee |-> R(2000)]
    ELSE IF ~prof[1].complete THEN [raised |-> TRUE, tdee |-> NaN]
    ELSE [raised |-> FALSE,
          tdee |-> EstimateTdeeMsj(prof[1].sex, prof[1].age, prof[1].height_cm,
                                   RDiv(current_w, LbsPerKg), prof[1].activity)]

\* main.py lines 465-485: mode "calorie"
CalorieSeries(bw_df, meals, tdee, horizon, smooth_days) ==
    IF tdee.raised THEN Raised
    ELSE [raised |-> ForecastWeightEnergy(bw_df, DailyKcalVsTdee(meals, tdee.tdee),
                                          horizon, smooth_days, MaxAbsRatePct).raised,
          rows |-> ForecastWeightEnergy(bw_df, DailyKcalVsTdee(meals, tdee.tdee),
                                        horizon, smooth_days, MaxAbsRatePct).rows]

\* main.py lines 458-463: mode "plan", with target_rate_pct or 0.0
PlanSeries(bw_df, target_rate_pct, horizon) ==
    [raised |-> ForecastWeightRealistic(bw_df, horizon,
                    IF target_rate_pct = NoTarget THEN Target(R(0)) ELSE target_rate_pct,
                    6, MaxAbsRatePct).raised,
     rows |-> ForecastWeightRealistic(bw_df, horizon,
                    IF target_rate_pct = NoTarget THEN Target(R(0)) ELSE target_rate_pct,
                    6, MaxAbsRatePct).rows]

\* main.py lines 449-507, the body of the try: db is what the store holds
WeightTry(db, mode, target_rate_pct, horizon, smooth_days) ==
    IF db.raises THEN [raised |-> TRUE, ret |-> EmptyAnswer]
    ELSE IF db.weights = <<>> THEN [raised |-> FALSE, ret |-> EmptyAnswer]
    ELSE IF mode = "plan"
    THEN SplitByKind(PlanSeries(SortNaLast(db.weights), target_rate_pct, horizon))
    ELSE IF db.meals = <<>> THEN [raised |-> FALSE, ret |-> EmptyAnswer]
    ELSE SplitByKind(CalorieSeries(SortNaLast(db.weights), db.meals,
             ProfileTdee(db.profile,
                         SortNaLast(db.weights)[Len(db.weights)].w),
             horizon, smooth_days))

\* main.py lines 441-513
GetWeightForecast(db, mode, target_rate_pct, horizon, smooth_days) ==
    ExceptEmpty(WeightTry(db, mode, target_rate_pct, horizon, smooth_days), EmptyAnswer)

\* the bodyweight rows of the store: the irregular frames and one weigh-in
\* of 220.462 lbs, which is 100 kg
StoredWeights ==
    IrregularFrames \cup {<<[date |-> 7, w |-> RNorm(220462, 1000)]>>}

StoredMeals ==
    {<<>>,
     <<[date |-> 0, calories |-> R(2000)]>>,
     <<[date |-> 0, calories |-> R(1500)]>>,
     <<[date |-> 2, calories |-> R(5000)], [date |-> 0, calories |-> R(300)],
       [date |-> 2, calories |-> R(5000)]>>}

StoredProfiles ==
    {<<>>,
     <<[complete |-> FALSE, sex |-> <<>>, age |-> 0, height_cm |-> R(0), activity |-> <<>>]>>,
     <<[complete |-> TRUE, sex |-> <<"M", "a", "l", "e">>, age |-> 25,
        height_cm |-> R(160), activity |-> <<"s", "e", "d", "e", "n", "t", "a", "r", "y">>]>>}

\* one request GET /api/weight/forecast?mode=plan&horizon=...
GetWeightForecastPlanCall ==
    \E weights \in StoredWeights, raises \in BOOLEAN, horizon \in HorizonArgs,
       target_rate_pct \in {NoTarget, Target(RNorm(-7, 10))} :
        /\ res = NoCall
        /\ raises => weights = <<>>
        /\ res' = [op |-> "get_weight_forecast", mode |-> "plan", raises |-> raises,
                   weights |-> weights, meals |-> <<>>, profile |-> <<>>,
                   target_rate_pct |-> target_rate_pct, horizon |-> horizon,
                   smooth_days |-> 7,
                   ret |-> GetWeightForecast([raises |-> raises, weights |-> weights,
                                              meals |-> <<>>, profile |-> <<>>],
                                             "plan", target_rate_pct, horizon, 7)]
        /\ UNCHANGED <<series, bw, csv, table>>

\* one request GET /api/weight/forecast?mode=calorie&horizon=...; the
\* complete profile goes with the weigh-in of 100 kg
GetWeightForecastCalorieCall ==
    \E weights \in StoredWeights, meals \in StoredMeals, profile \in StoredProfiles,
       horizon \in {0, 2}, smooth_days \in SmoothDaysArgs :
        /\ res = NoCall
        /\ (profile # <<>> /\ profile[1].complete) =>
               weights = <<[date |-> 7, w |-> RNorm(220462, 1000)]>>
        /\ res' = [op |-> "get_weight_forecast", mode |-> "calorie", raises |-> FALSE,
                   weights |-> weights, meals |-> meals, profile |-> profile,
                   target_rate_pct |-> NoTarget, horizon |-> horizon,
                   smooth_days |-> smooth_days,
                   ret |-> GetWeightForecast([raises |-> FALSE, weights |-> weights,
                                              meals |-> meals, profile |-> profile],
                                             "calorie", NoTarget, horizon, smooth_days)]
        /\ UNCHANGED <<series, bw, csv, table>>

InitLog ==
    /\ series = <<>>
    /\ bw = <<>>
    /\ res = NoCall
    /\ csv = <<>>
    /\ table = <<>>

NextLog ==
    \/ DailyKcalVsTdeeCall
    \/ WeeklyBest1RMCall
    \/ GetWorkoutForecastCall
    \/ WorkoutsPageForecastCall
    \/ GetWeightForecastPlanCall
    \/ GetWeightForecastCalorieCall

SpecLog == InitLog /\ [][NextLog]_vars

(***************************************************************************)
(* Claims about daily_kcal_vs_tdee                                         *)
(***************************************************************************)
KcalCalled == res.op = "daily_kcal_vs_tdee"

\* the meals of the call eaten on a day, whatever the time of day
MealsOfDay(day) ==
    SelectSeq(res.meals_df, LAMBDA r : r.date # NaT /\ r.date \div 2 = day)

\* C24: daily_kcal_vs_tdee returns one row per distinct valid date of the
\* meal log, in ascending date order, with intake_kcal the sum of that date's
\* calories and balance_kcal = intake_kcal - tdee_kcal (negative for a
\* deficit); a meal with an unparseable date contributes to no row.
C24_DailyBalance ==
    KcalCalled =>
        /\ {res.ret[j].date : j \in 1..Len(res.ret)} =
               {2 * (res.meals_df[i].date \div 2) :
                   i \in {i \in 1..Len(res.meals_df) : res.meals_df[i].date # NaT}}
        /\ \A j \in 2..Len(res.ret) : res.ret[j - 1].date < res.ret[j].date
        /\ \A j \in 1..Len(res.ret) :
              /\ REq(res.ret[j].intake_kcal,
                     RSum([i \in 1..Len(MealsOfDay(res.ret[j].date \div 2)) |->
                              MealsOfDay(res.ret[j].date \div 2)[i].calories]))
              /\ REq(res.ret[j].balance_kcal,
                     RSub(res.ret[j].intake_kcal, res.tdee_kcal))
              /\ RLt(res.ret[j].balance_kcal, R(0)) =
                     RLt(res.ret[j].intake_kcal, res.tdee_kcal)

\* two meals of one day at different times after a meal of a later day: two
\* rows by date, the first with the sum and a surplus, the second a deficit
C24_Witness ==
    /\ KcalCalled
    /\ res.meals_df = <<[date |-> 5, calories |-> R(300)], [date |-> 1, calories |-> R(300)],
                        [date |-> 0, calories |-> R(300)]>>
    /\ REq(res.tdee_kcal, R(400))
    /\ Len(res.ret) = 2
    /\ res.ret[1].date = 0 /\ REq(res.ret[1].balance_kcal, R(200))
    /\ res.ret[2].date = 4 /\ REq(res.ret[2].balance_kcal, R(-100))

\* a meal without a date is in no row
C24_WitnessNoDate ==
    /\ KcalCalled /\ Len(res.meals_df) = 3 /\ Len(res.ret) = 1
    /\ \E i \in 1..3 : res.meals_df[i].date = NaT
    /\ REq(res.ret[1].intake_kcal, R(800))

(***************************************************************************)
(* Claims about weekly_best_1rm                                            *)
(***************************************************************************)
BestCalled == res.op = "weekly_best_1rm"

\* the sets of the chosen exercise in the log of the call
SetsOfExercise == SelectSeq(res.df, LAMBDA r : r.exercise = res.exercise)

\* weight_kg x (1 + reps / 30) of a set, as weight_kg x (30 + reps) / 30
OneRepMax(set) == RDiv(RMul(set.weight_kg, R(30 + set.reps)), R(30))

\* C25: weekly_best_1rm returns, for the chosen exercise, exactly one row per
\* (ISO year, week) that has a logged set, with best_1rm the maximum over
\* that week's sets of weight_kg x (1 + reps/30), in ascending (year, week)
\* order; it returns an empty frame when the exercise has no sets.
C25_WeeklyBest ==
    BestCalled =>
        /\ {<<res.ret[j].year, res.ret[j].week>> : j \in 1..Len(res.ret)} =
               {<<SetsOfExercise[i].year, SetsOfExercise[i].week>> :
                   i \in 1..Len(SetsOfExercise)}
        /\ \A j \in 2..Len(res.ret) :
              \/ res.ret[j - 1].year < res.ret[j].year
              \/ /\ res.ret[j - 1].year = res.ret[j].year
                 /\ res.ret[j - 1].week < res.ret[j].week
        /\ \A j \in 1..Len(res.ret) :
              /\ \E i \in 1..Len(SetsOfExercise) :
                    /\ SetsOfExercise[i].year = res.ret[j].year
                    /\ SetsOfExercise[i].week = res.ret[j].week
                    /\ REq(res.ret[j].best_1rm, OneRepMax(SetsOfExercise[i]))
              /\ \A i \in 1..Len(SetsOfExercise) :
                    (/\ SetsOfExercise[i].year = res.ret[j].year
                     /\ SetsOfExercise[i].week = res.ret[j].week)
                    => RLe(OneRepMax(SetsOfExercise[i]), res.ret[j].best_1rm)
        /\ SetsOfExercise = <<>> => res.ret = <<>>

\* two sets in the weeks 10 and 9 of a year, logged in that order: two rows,
\* week 9 first
C25_Witness ==
    /\ BestCalled /\ Len(res.df) = 2 /\ Len(res.ret) = 2
    /\ res.df[1].week = 10 /\ res.df[2].week = 9
    /\ res.ret[1].week = 9 /\ res.ret[2].week = 10

\* two sets of one week: one row, with the higher estimate, which is not
\* that of the heavier set
C25_WitnessMax ==
    /\ BestCalled /\ Len(res.df) = 2 /\ Len(res.ret) = 1
    /\ REq(res.df[1].weight_kg, R(110)) /\ REq(res.df[2].weight_kg, R(100))
    /\ REq(res.ret[1].best_1rm, RNorm(350, 3))

C25_WitnessNoSets ==
    BestCalled /\ Len(res.df) = 2 /\ SetsOfExercise = <<>> /\ res.ret = <<>>

(***************************************************************************)
(* Claims about the strength forecast                                      *)
(***************************************************************************)
StrengthCalled == res.op \in {"get_workout_forecast", "workouts_page_forecast"}

\* the weeks in which the log of the call has a weight for the exercise
WeeksWithTop ==
    {(res.rows[i].date + 6) \div 7 :
        i \in {n \in 1..Len(res.rows) :
                  /\ res.rows[n].exercise = res.exercise
                  /\ res.rows[n].date # NaT
                  /\ ~IsNaN(res.rows[n].weight_kg)}}

\* C23: the strength forecast of GET /api/workouts/forecast and of the
\* Workouts page is up-only: the fitted weekly slope is floored at 0, so the
\* predicted values never decrease from one week to the next, and the
\* forecast is empty when fewer than 2 weekly top-weight points exist.
C23_UpOnly ==
    StrengthCalled =>
        /\ \A k \in 2..Len(res.ret.forecast) :
              /\ RLe(res.ret.forecast[k - 1].value, res.ret.forecast[k].value)
              /\ REq(RSub(res.ret.forecast[k].value, res.ret.forecast[k - 1].value),
                     res.ret.b1)
        /\ res.ret.forecast # <<>> =>
              /\ RLe(R(0), res.ret.b1)
              /\ REq(res.ret.b1,
                     RMax(R(0), LinFit([i \in 1..Len(res.ret.actual) |->
                                           res.ret.actual[i].value]).b))
        /\ Cardinality(WeeksWithTop) < 2 => res.ret.forecast = <<>>

\* tops that fall from 110 to 100: the slope -10 is floored and the forecast
\* stays at one value
C23_Witness ==
    /\ res.op = "get_workout_forecast" /\ Len(res.ret.forecast) = 2
    /\ Len(res.ret.actual) = 2
    /\ REq(res.ret.actual[1].value, R(110)) /\ REq(res.ret.actual[2].value, R(100))
    /\ REq(res.ret.b1, R(0))
    /\ REq(res.ret.forecast[1].value, res.ret.forecast[2].value)

\* rising tops on the page: a rising forecast
C23_WitnessPage ==
    /\ res.op = "workouts_page_forecast" /\ Len(res.ret.forecast) = 4
    /\ RLt(R(0), res.ret.b1)
    /\ RLt(res.ret.forecast[1].value, res.ret.forecast[4].value)

\* three sets in one week: one weekly point and no forecast
C23_WitnessOneWeek ==
    /\ StrengthCalled /\ Len(res.rows) = 3 /\ Cardinality(WeeksWithTop) = 1
    /\ res.ret.forecast = <<>>

(***************************************************************************)
(* Claims about the answers of the two forecast endpoints                  *)
(***************************************************************************)
WeightAsked == res.op = "get_weight_forecast"

WorkoutAsked == res.op = "get_workout_forecast"

\* the TDEE of the request: 2000 without a profile, and for the complete
\* profile (male, 25, 160 cm, 100 kg, sedentary) (1000 + 1000 - 125 + 5) x 1.2
RequestTdee == IF res.profile = <<>> THEN R(2000) ELSE R(2256)

\* what the engine does on the stored rows as they are
EngineOut ==
    IF res.mode = "plan"
    THEN ForecastWeightRealistic(res.weights, res.horizon,
             IF res.target_rate_pct = NoTarget THEN Target(R(0)) ELSE res.target_rate_pct,
             6, MaxAbsRatePct)
    ELSE ForecastWeightEnergy(res.weights, DailyKcalVsTdee(res.meals, RequestTdee),
                              res.horizon, res.smooth_days, MaxAbsRatePct)

\* the request stops before the engine, or the engine raises
NothingToSplit ==
    \/ res.raises
    \/ res.weights = <<>>
    \/ res.mode = "calorie" /\ res.meals = <<>>
    \/ res.mode = "calorie" /\ res.profile # <<>> /\ ~res.profile[1].complete
    \/ EngineOut.raised

OfKind(kind) == SelectSeq(EngineOut.rows, LAMBDA r : r.kind = kind)

C30_WitnessCalorie ==
    /\ WeightAsked /\ res.mode = "calorie" /\ res.profile # <<>>
    /\ Len(res.ret.actual) = 1 /\ Len(res.ret.forecast) = 2
    /\ RLt(res.ret.forecast[2].value, res.ret.actual[1].value)

\* a profile that lacks a key
C30_WitnessProfile ==
    /\ WeightAsked /\ res.mode = "calorie" /\ res.meals # <<>> /\ res.weights # <<>>
    /\ res.profile # <<>> /\ ~res.profile[1].complete
    /\ res.ret = EmptyAnswer

\* the store raises on the workouts
C30_WitnessStoreRaises ==
    /\ WorkoutAsked /\ res.raises
    /\ ~res.ret.error /\ res.ret.actual = <<>> /\ res.ret.forecast = <<>>

\* weigh-ins without a weight alone: forecast_weight_energy raises on iloc[-1]
C30_WitnessNoWeight ==
    /\ WeightAsked /\ res.mode = "calorie" /\ res.meals # <<>>
    /\ res.weights = <<[date |-> 3, w |-> NaN]>>
    /\ EngineOut.raised
    /\ res.ret = EmptyAnswer

(***************************************************************************)
(* The objects of a call.  The memory of a call holds the contents of its  *)
(* arrays and frames by reference: h[1] is the object the caller passed,   *)
(* r is the reference a name of the function is bound to.                  *)
(***************************************************************************)
Start(x) == [h |-> <<x>>, r |-> 1]

\* an expression that builds a new object: np.convolve, a boolean mask,
\* dropna, sort_values, reset_index, groupby
Fresh(m, content) == [h |-> Append(m.h, content), r |-> Len(m.h) + 1]

\* a variant of the copy that hands back the object itself
CopyAlias(m) == m

\* DataFrame.copy()
Copy(m) == Fresh(m, m.h[m.r])

\* forecast.py line 70: np.asarray(values, dtype=float) is the array itself
\* when it holds floats already
AsArray(m) == m

\* name[i] = v
SetItem(m, i, v) == [m EXCEPT !.h[m.r][i] = v]

\* name[column] = vals, a column written or added
SetColumn(m, column, vals) ==
    [m EXCEPT !.h[m.r] =
        [i \in 1..Len(m.h[m.r]) |->
            [f \in (DOMAIN m.h[m.r][i]) \cup {column} |->
                IF f = column THEN vals[i] ELSE m.h[m.r][i][f]]]]

\* forecast.py lines 57-58: smoothed[0] = values[0]; smoothed[-1] = values[-1]
EdgeFirst(s, values) == SetItem(s, 1, s.h[values][1])

EdgeLast(s, values) == SetItem(s, Len(s.h[s.r]), s.h[values][Len(s.h[values])])

\* forecast.py lines 51-59: _smooth_data(values, window)
SmoothDataMem(m, window) ==
    IF Len(m.h[m.r]) < window THEN m
    ELSE EdgeLast(EdgeFirst(Fresh(m, [i \in 1..Len(m.h[m.r]) |->
                                         ConvolveSame(m.h[m.r], window, i)]),
                            m.r),
                  m.r)

\* forecast.py lines 75-83: values = filtered, a new array, where the
\* quartiles differ
FilterMem(m) ==
    IF Len(m.h[m.r]) > 4 /\ RLt(Percentile(m.h[m.r], 1), Percentile(m.h[m.r], 3))
    THEN Fresh(m, OutlierStep(m.h[m.r]))
    ELSE m

\* forecast.py lines 86-87
SmoothMem(m) ==
    IF Len(m.h[m.r]) >= 5 THEN SmoothDataMem(m, Min2(3, Len(m.h[m.r]) \div 2))
    ELSE m

\* forecast.py lines 70-87: the memory of forecast_series(values, ...) from
\* where the fits only read
ForecastSeriesMem(values) ==
    IF Len(values) = 0 THEN AsArray(Start(values))
    ELSE SmoothMem(FilterMem(AsArray(Start(values))))

\* d["date"] = pd.to_datetime(d["date"]).dt.date
NormalizeDates(m) ==
    SetColumn(m, "date", [i \in 1..Len(m.h[m.r]) |-> Normalize(m.h[m.r][i].date)])

\* forecast.py lines 266-274: the memory of daily_kcal_vs_tdee; g is a new
\* frame
DailyKcalMem(meals_df, tdee_kcal) ==
    IF meals_df = <<>> THEN Start(meals_df)
    ELSE Fresh(NormalizeDates(Copy(Start(meals_df))),
               DailyRows(NormalizeDates(Copy(Start(meals_df))).h[
                             NormalizeDates(Copy(Start(meals_df))).r], tdee_kcal))

\* d["date"] = pd.to_datetime(d["date"]) on dates that are timestamps
ToDatetime(m) == SetColumn(m, "date", [i \in 1..Len(m.h[m.r]) |-> m.h[m.r][i].date])

\* forecast.py lines 177 and 200: dropna(...).copy().sort_values("date")
\* .reset_index(drop=True)
SortedCopyMem(frame, withDate) ==
    IF frame = <<>> THEN Start(frame)
    ELSE Fresh(Copy(Fresh(Start(frame), DropNa(frame, withDate))),
               SortByDate(DropNa(frame, withDate)))

\* forecast.py lines 285-286: d_w of forecast_weight_energy
EnergyWeightMem(frame, daily_balance) ==
    IF frame = <<>> \/ daily_balance = <<>> THEN Start(frame)
    ELSE ToDatetime(SortedCopyMem(frame, TRUE))

\* forecast.py line 291: the rolling mean of the balance
RollingMean(db, smooth_days) ==
    [i \in 1..Len(db) |-> LastBalance(SubSeq(db, Max2(1, i - smooth_days + 1), i))]

\* forecast.py lines 290-291: db of forecast_weight_energy
EnergyBalanceMem(frame, daily_balance, smooth_days) ==
    IF frame = <<>> \/ daily_balance = <<>> THEN Start(daily_balance)
    ELSE SetColumn(Fresh(Copy(Start(daily_balance)), SortByDate(daily_balance)),
                   "balance_kcal_smooth",
                   RollingMean(SortByDate(daily_balance), smooth_days))

\* d["yw"] = _year_week_index(d["date"])
YearWeekColumn(m) ==
    SetColumn(m, "yw", [i \in 1..Len(m.h[m.r]) |-> IsoWeek(m.h[m.r][i].date)])

\* forecast.py lines 337-339: d_bw of forecast_weight_multifeature
MultifeatureWeightMem(frame) ==
    IF frame = <<>> THEN Start(frame)
    ELSE YearWeekColumn(ToDatetime(Copy(Fresh(Start(frame), DropNa(frame, TRUE)))))

\* m = m.dropna(subset=["date"])
DropNoDate(m) == Fresh(m, SelectSeq(m.h[m.r], LAMBDA r : r.date # NaT))

\* forecast.py lines 345-349 and 354-358: m and w of
\* forecast_weight_multifeature
FeatureMem(frame, rows) ==
    IF frame = <<>> \/ rows = <<>> THEN Start(rows)
    ELSE YearWeekColumn(DropNoDate(ToDatetime(Copy(Start(rows)))))

\* the meals a call of daily_kcal_vs_tdee is given: dates in half days
MealFrames ==
    {<<>>,
     <<[date |-> 0, calories |-> R(300)]>>,
     <<[date |-> 3, calories |-> R(500)], [date |-> 1, calories |-> R(300)],
       [date |-> NaT, calories |-> R(300)]>>}

\* forecast_series(series, steps, algo) with the array of the caller
ForecastSeriesRun ==
    \E steps \in {2}, algo \in {"auto", "linear"} :
        /\ res = NoCall
        /\ res' = [op |-> "forecast_series", before |-> <<series>>,
                   after |-> <<ForecastSeriesMem(series).h[1]>>,
                   ret |-> ForecastSeries(series, steps, algo, FALSE,
                                          [raises |-> TRUE, resid |-> 0, trend |-> 0])]
        /\ series' = ForecastSeriesMem(series).h[1]
        /\ UNCHANGED <<bw, csv, table>>

\* forecast_weight_realistic(bw) and forecast_weight_confidence(bw) with the
\* frame of the caller
ForecastWeightRun ==
    \E op \in {"forecast_weight_realistic", "forecast_weight_confidence"} :
        /\ res = NoCall
        /\ res' = [op |-> op, before |-> <<bw>>,
                   after |-> <<SortedCopyMem(bw, op = "forecast_weight_realistic").h[1]>>,
                   ret |-> IF op = "forecast_weight_realistic"
                           THEN ForecastWeightRealistic(bw, 8, NoTarget, 6, MaxAbsRatePct).rows
                           ELSE ForecastWeightConfidence(bw, 8, "linear", FALSE,
                                    [raises |-> TRUE, resid |-> 0, trend |-> 0]).rows]
        /\ bw' = SortedCopyMem(bw, op = "forecast_weight_realistic").h[1]
        /\ UNCHANGED <<series, csv, table>>

\* daily_kcal_vs_tdee(meals_df, tdee_kcal)
DailyKcalVsTdeeRun ==
    \E meals_df \in MealFrames :
        /\ res = NoCall
        /\ res' = [op |-> "daily_kcal_vs_tdee", before |-> <<meals_df>>,
                   after |-> <<DailyKcalMem(meals_df, R(400)).h[1]>>,
                   ret |-> DailyKcalVsTdee(meals_df, R(400))]
        /\ UNCHANGED <<series, bw, csv, table>>

\* forecast_weight_energy(bw, daily_balance, horizon_weeks, smooth_days)
ForecastWeightEnergyRun ==
    \E daily_balance \in BalanceInputs, smooth_days \in {1, 7} :
        /\ res = NoCall
        /\ res' = [op |-> "forecast_weight_energy", before |-> <<bw, daily_balance>>,
                   after |-> <<EnergyWeightMem(bw, daily_balance).h[1],
                               EnergyBalanceMem(bw, daily_balance, smooth_days).h[1]>>,
                   ret |-> ForecastWeightEnergy(bw, daily_balance, 1, smooth_days,
                                                MaxAbsRatePct).rows]
        /\ bw' = EnergyWeightMem(bw, daily_balance).h[1]
        /\ UNCHANGED <<series, csv, table>>

\* forecast_weight_multifeature(bw, meals_df, workouts_df, horizon_weeks)
ForecastWeightMultifeatureRun ==
    \E meals \in MealsInputs, workouts \in WorkoutsInputs :
        /\ res = NoCall
        /\ res' = [op |-> "forecast_weight_multifeature",
                   before |-> <<bw, meals, workouts>>,
                   after |-> <<MultifeatureWeightMem(bw).h[1], FeatureMem(bw, meals).h[1],
                               FeatureMem(bw, workouts).h[1]>>,
                   ret |-> ForecastWeightMultifeature(bw, meals, workouts, 1,
                                                      Default, Default).rows]
        /\ bw' = MultifeatureWeightMem(bw).h[1]
        /\ UNCHANGED <<series, csv, table>>

InitMem ==
    /\ \/ series \in SeriesInputs /\ bw = <<>>
       \/ series = <<>> /\ bw \in IrregularFrames
    /\ res = NoCall
    /\ csv = <<>>
    /\ table = <<>>

NextMem ==
    \/ ForecastSeriesRun
    \/ ForecastWeightRun
    \/ DailyKcalVsTdeeRun
    \/ ForecastWeightEnergyRun
    \/ ForecastWeightMultifeatureRun

SpecMem == InitMem /\ [][NextMem]_vars

(***************************************************************************)
(* Claims about the inputs of a call                                       *)
(***************************************************************************)
\* C21: no forecast entry point (forecast_series, forecast_weight_realistic,
\* forecast_weight_confidence, forecast_weight_energy,
\* forecast_weight_multifeature, daily_kcal_vs_tdee) modifies the array or
\* the frames it is given: after the call every input holds the same rows,
\* columns and values as before, in the memory of the call and in the
\* variable of the caller.
C21_InputsKept ==
    res # NoCall =>
        /\ res.after = res.before
        /\ res.op = "forecast_series" => series = res.before[1]
        /\ res.op \in {"forecast_weight_realistic", "forecast_weight_confidence",
                       "forecast_weight_energy", "forecast_weight_multifeature"}
              => bw = res.before[1]

\* a series of 6 values that the smoothing changes: the edge writes of
\* _smooth_data go to the new array
C21_Witness ==
    /\ res # NoCall /\ res.op = "forecast_series"
    /\ Len(series) = 6
    /\ ForecastSeriesMem(series).r # 1
    /\ ForecastSeriesMem(series).h[ForecastSeriesMem(series).r] # series
    /\ res.ret.smoothed = ForecastSeriesMem(series).h[ForecastSeriesMem(series).r]

\* meals whose dates carry a time of day: the dates are cut in the copy
C21_WitnessMeals ==
    /\ res # NoCall /\ res.op = "daily_kcal_vs_tdee"
    /\ \E i \in 1..Len(res.before[1]) : res.before[1][i].date = 3
    /\ Len(res.ret) = 2 /\ res.ret[2].date = 2
    /\ res.after[1] = res.before[1]

\* a balance frame out of order, sorted and given a column in the copy
C21_WitnessBalance ==
    /\ res # NoCall /\ res.op = "forecast_weight_energy"
    /\ Len(res.before[2]) = 2 /\ res.before[2][1].date > res.before[2][2].date
    /\ bw # <<>> /\ res.ret # <<>>
    /\ res.after = res.before

====
